---- MODULE Spec2Model ----
(***************************************************************************)
(* Adel (src/adel.h): a cooperative runtime in which every Adel function   *)
(* is a closure with a saved program counter (adel_pc), every closure owns *)
(* up to three child activation records, and the top-level macros          *)
(* arepeat / aevery / aonce advance one tree by one pass per call.          *)
(*                                                                         *)
(* A function body is a sequence of instructions, one per source line; the *)
(* marker of instruction i is 10*i (anextstep) and 10*i+k (alaterstep(k)). *)
(* millis() is read as one value for the whole of a pass.                  *)
(***************************************************************************)
EXTENDS Integers, Sequences, FiniteSets, TLC

VARIABLES
  prog,       \* which sketch (loop() body) is loaded
  now,        \* millis(), a uint32_t
  elapsed,    \* clock units since the first state (bounds the exploration)
  pin,        \* input pins read by await conditions
  out,        \* output values written by task bodies
  ars,        \* the heap of activation records, by address
  root,       \* AdelRuntime::root of each top-level call site (0 = null)
  anexttime,  \* the static anexttime of each aevery call site
  armed,      \* whether the static initializer of a call site has run
  site,       \* the next top-level call site of loop() to execute
  trace,      \* what the most recent top-level call did, in order
  stack,      \* AdelRuntime::stack of the revision with the turn mailbox
  born        \* history: the clock when each aevery call site last created a root

vars == <<prog, now, elapsed, pin, out, ars, root, anexttime, armed, site, trace, stack,
          born>>

-----------------------------------------------------------------------------
(* Program constants and bounds *)

ADEL_FINALLY == 65535

\* uint32_t.  The model checker's integers are 32-bit signed, so a uint32_t value u
\* is held as u - 2^31: U0 is 0, UMax is 2^32 - 1, unsigned < is <, and
\* Add32 is + modulo 2^32.
UMax == 2147483647
U0 == (-UMax) - 1
U32(k) == U0 + k
Add32(x, d) == IF x > UMax - d THEN ((x - UMax) + (d - 1)) + U0 ELSE x + d

\* (x - y) modulo 2^32, for the small differences that occur here
Sub32(x, y) == IF x >= y THEN x - y ELSE ((x - U0) + (UMax - y)) + 1

MaxAR == 6
MaxElapsed == 600
WrapMargin == 400
MaxSteps == 6
MaxRamp == 1300

Advances == {50, 100, 250}
\* the clock steps of the sketches built on aramp
RampAdvances == {249, 250, 251}
Pins == {"p", "q"}
Outs == {"o1", "o2", "o3"}

-----------------------------------------------------------------------------
(* astatus *)

done(s) == s = "ADONE"
cont(s) == s = "ACONT"
yield(s) == s = "AYIELD"
notdone(s) == s = "ACONT" \/ s = "AYIELD"

-----------------------------------------------------------------------------
(* Adel function bodies *)

Ins(op) == [op |-> op, f |-> "", g |-> "", h |-> "", t |-> 0, to |-> 0,
            v |-> "", blk |-> "", lo |-> 0, hi |-> 0]
Write(v, x) == [Ins("write") EXCEPT !.v = v, !.t = x]
ADelay(t) == [Ins("adelay") EXCEPT !.t = t]
ADelayPin(t, p, t2) == [Ins("adelay") EXCEPT !.t = t, !.v = p, !.to = t2]
Await(p) == [Ins("await") EXCEPT !.v = p]
AndThen(f) == [Ins("andthen") EXCEPT !.f = f]
AForAtMost(t, f, to) == [Ins("aforatmost") EXCEPT !.t = t, !.f = f, !.to = to]
ABoth(f, g) == [Ins("aboth") EXCEPT !.f = f, !.g = g]
AThree(f, g, h) == [Ins("athree") EXCEPT !.f = f, !.g = g, !.h = h]
AUntil(f, g, to) == [Ins("auntil") EXCEPT !.f = f, !.g = g, !.to = to]
Alternate(f, g) == [Ins("alternate") EXCEPT !.f = f, !.g = g]
AYourTurn == Ins("ayourturn")
AFinish == Ins("afinish")
YourTurnV(t, p, t2) == [Ins("ayourturnv") EXCEPT !.t = t, !.v = p, !.to = t2]
MyTurn(v) == [Ins("amyturn") EXCEPT !.v = v]
Goto(to) == [Ins("goto") EXCEPT !.to = to]
\* aramp( T, v, start, end ) { ... }: the body is the instructions up to
\* Again, and to is the statement after the body
ARamp(t, v, lo, hi, to) ==
  [Ins("aramp") EXCEPT !.t = t, !.v = v, !.lo = lo, !.hi = hi, !.to = to]
\* the closing brace of a while body: control returns to the test at to
Again(to) == [Ins("again") EXCEPT !.to = to, !.blk = "ramp"]
Then(ins) == [ins EXCEPT !.blk = "then"]
Else(ins) == [ins EXCEPT !.blk = "else"]

\* adel timeout(int ms) { abegin: adelay(ms); aend; }
Timeout(ms) == << ADelay(ms) >>

\* adel blink(int pin, int N): while (1) { HIGH; adelay(N); LOW; adelay(N); }
Blink(v, n) == << Write(v, 1), ADelay(n), Write(v, 0), ADelay(n), Goto(1) >>

\* a task that reports Yielded k-1 times and Finished on its k-th step
StepsA == << Write("o1", 1), AYourTurn, Write("o1", 2) >>
StepsB == << Write("o2", 1), AYourTurn, Write("o2", 2), AYourTurn, Write("o2", 3) >>

\* a task whose progress follows an input pin: Continuing while the pin is
\* low, then one Yielded, then Finished
Worker(p, v) == << Write(v, 1), Await(p), Write(v, 2), AYourTurn, Write(v, 3) >>

\* a task with a subtree of its own
Nest(f, v) == << Write(v, 1), AndThen(f), Write(v, 3) >>

\* a task that is Continuing or Yielded as its pin says, twice, then Finished
Ping(p, v) == << Write(v, 1), Await(p), AYourTurn, Write(v, 2), Await(p), AYourTurn,
                 Write(v, 3) >>

\* a task that executes ayourturn on every step and never finishes
Yielder(v) == << Write(v, 1), AYourTurn, Goto(1) >>

\* two tasks for alternate in the revision with ayourturn(v) and amyturn:
\* F: ayourturn(7); o1 = amyturn; await(p); ayourturn(q ? 6 : 5); o1 = amyturn;
\* G: o2 = amyturn; ayourturn(3); o2 = amyturn; ayourturn(p ? 8 : 4); o2 = amyturn;
MailF == << YourTurnV(7, "", 0), MyTurn("o1"), Await("p"), YourTurnV(5, "q", 6),
            MyTurn("o1") >>
MailG == << MyTurn("o2"), YourTurnV(3, "", 0), MyTurn("o2"), YourTurnV(4, "p", 8),
            MyTurn("o2") >>

SeqAB == << AndThen("stepsA"), AndThen("stepsB") >>

BothOf(f, g) == << ABoth(f, g), Write("o3", 1) >>

\* auntil( f , g ) { o3 = 1; } else { o3 = 2; }
UntilOf(f, g) ==
  << AUntil(f, g, 4), Then(Write("o3", 1)), Then(Goto(5)), Else(Write("o3", 2)) >>

\* auntil( f , g ) { o3 = 1; await(p); o3 = 2; } else { o3 = 3; ayourturn; o3 = 4; }
\* o3 = 0;
UntilLong(f, g) ==
  << AUntil(f, g, 6),
     Then(Write("o3", 1)), Then(Await("p")), Then(Write("o3", 2)), Then(Goto(9)),
     Else(Write("o3", 3)), Else(AYourTurn), Else(Write("o3", 4)),
     Write("o3", 0) >>

\* aforatmost( t, f ) { o3 = 1; } else { o3 = 2; }
RaceOf(t, f) ==
  << AForAtMost(t, f, 4), Then(Write("o3", 1)), Then(Goto(5)), Else(Write("o3", 2)) >>

\* aforatmost( t, f ) { o3 = 1; adelay(100); o3 = 2; } else { o3 = 3; ayourturn; o3 = 4; }
\* o3 = 0;
RaceLong(t, f) ==
  << AForAtMost(t, f, 6),
     Then(Write("o3", 1)), Then(ADelay(100)), Then(Write("o3", 2)), Then(Goto(9)),
     Else(Write("o3", 3)), Else(AYourTurn), Else(Write("o3", 4)),
     Write("o3", 0) >>

AltOf(f, g) == << Alternate(f, g), Write("o3", 1) >>

Body(fn) ==
  CASE fn = "timeout100" -> Timeout(100)
    [] fn = "timeout300" -> Timeout(300)
    [] fn = "timeout400" -> Timeout(400)
    [] fn = "timeout500" -> Timeout(500)
    [] fn = "blink" -> Blink("o2", 100)
    [] fn = "stepsA" -> StepsA
    [] fn = "stepsB" -> StepsB
    [] fn = "workP" -> Worker("p", "o1")
    [] fn = "workQ" -> Worker("q", "o2")
    [] fn = "nestQ" -> Nest("workQ", "o2")
    [] fn = "pingP" -> Ping("p", "o1")
    [] fn = "pingQ" -> Ping("q", "o2")
    [] fn = "seqAB" -> SeqAB
    [] fn = "bothT" -> BothOf("timeout300", "timeout500")
    [] fn = "bothW" -> BothOf("workP", "workQ")
    [] fn = "untilT" -> UntilOf("timeout300", "timeout500")
    [] fn = "untilW" -> UntilLong("workP", "nestQ")
    [] fn = "race400" -> RaceOf(250, "timeout400")
    [] fn = "race100" -> RaceOf(250, "timeout100")
    [] fn = "raceW" -> RaceLong(250, "nestQ")
    [] fn = "raceB" -> RaceOf(250, "blink")
    [] fn = "altW" -> AltOf("pingP", "pingQ")
    [] fn = "yielder" -> Yielder("o2")
    [] fn = "delayP" -> << Write("o1", 1), ADelayPin(250, "p", 100), Write("o1", 0) >>
    [] fn = "fade" -> << ARamp(1000, "o1", 0, 255, 4), [ADelay(50) EXCEPT !.blk = "ramp"],
                         Again(1), Write("o3", 1) >>
    [] fn = "fadeT" ->
         \* o3 = 0; aramp( 1000 - o3, o1, 0, 255 ) { o3 = 750; adelay(50); } o2 = 1;
         << Write("o3", 0), [ARamp(1000, "o1", 0, 255, 6) EXCEPT !.h = "o3"],
            [Write("o3", 750) EXCEPT !.blk = "ramp"], [ADelay(50) EXCEPT !.blk = "ramp"],
            Again(2), Write("o2", 1) >>
    [] fn = "fadeD" -> << ARamp(250, "o2", 255, 0, 4), [AYourTurn EXCEPT !.blk = "ramp"],
                          Again(1), Write("o3", 1) >>
    [] fn = "yieldOps" ->
         \* andthen(A); aboth(A, B); athree(A, B, A); aboth(B, A); o3 = 0;
         << AndThen("stepsA"), ABoth("stepsA", "stepsB"),
            AThree("stepsA", "stepsB", "stepsA"), ABoth("stepsB", "stepsA"),
            Write("o3", 0) >>
    [] fn = "raceY" -> RaceOf(250, "stepsB")
    [] fn = "untilY" -> UntilOf("stepsB", "stepsA")
    [] fn = "quit" -> << Write("o1", 1), AFinish, Write("o1", 2) >>
    [] fn = "nestF" -> Nest("quit", "o2")
    [] fn = "mailF" -> MailF
    [] fn = "mailG" -> MailG
    [] fn = "mailAlt" -> AltOf("mailF", "mailG")
    [] fn = "altY" -> AltOf("stepsA", "yielder")
    [] fn = "prod" ->
         \* src/unnamed/part_000: o1 = 1; ayield; o1 = 2; ayield; o1 = 3;
         << Write("o1", 1), Ins("ayield"), Write("o1", 2), Ins("ayield"), Write("o1", 3) >>
    [] fn = "cons" ->
         \* src/unnamed/part_000: aforevery( prod() ) { o3 = 1; } o2 = 1;
         \* the block is the instructions before to
         << [Ins("aforevery") EXCEPT !.f = "prod", !.to = 3], Then(Write("o3", 1)),
            Write("o2", 1) >>
    [] fn = "turn3" -> << YourTurnV(7, "", 0) >>
    [] fn = "inner3" -> AltOf("turn3", "turn3")
    [] fn = "deep3" -> AltOf("turn3", "inner3")
    [] fn = "altBB" -> AltOf("stepsB", "stepsB")
    [] fn = "gateQ" -> << Await("q"), Write("o2", 1) >>
    [] fn = "race0" -> RaceOf(0, "gateQ")
    [] fn = "fast2" ->
         \* src/unnamed/part_002: asteps: awaituntil( p ); statement; aend
         << Await("p"), Ins("stmt"), Ins("aend") >>
    [] fn = "slow2" -> << Await("q"), Ins("stmt"), Ins("aend") >>
    [] fn = "tog2" ->
         \* asteps: atogether( fast2(), slow2() ); statement; aend
         << [Ins("atogether") EXCEPT !.f = "fast2", !.g = "slow2"], Ins("stmt"), Ins("aend") >>
    [] fn = "altL" ->
         \* while (1) { alternate( quit(), nestQ() ); o3 = 1; }
         << Alternate("quit", "nestQ"), Write("o3", 1), Goto(1) >>
    [] OTHER -> << >>

-----------------------------------------------------------------------------
(* Activation records and the heap *)

NoChildren == [i \in 0..2 |-> 0]

\* abegin: adel_pc = 0, adel_wait = 0, adel_ramp_start = 0; AdelAR(): no
\* children.  ns, last, fin, ent, rec and br are history: the number of
\* steps taken, the last status reported, whether ADONE was ever reported,
\* the clock at the latest operator entry, the outcome of the latest branching
\* operator (1: f reported ADONE, 2: it did not, 0: none yet) and the branch
\* bodies run since.
FreshAR(fn) ==
  [live |-> TRUE, fn |-> fn, pc |-> 0, wait |-> U0, ramp |-> U0, ch |-> NoChildren,
   ns |-> 0, last |-> "ANONE", fin |-> FALSE, ent |-> U0, dur |-> 0, rec |-> 0,
   br |-> {}]

NoAR == [FreshAR("") EXCEPT !.live = FALSE]

LiveOf(h) == {a \in 1..MaxAR : h[a].live}

\* One event of a pass: its kind, the record (or call site) it is about and
\* that record's function, a number, a word, more values; o and lv are the
\* outputs and the set of live records at that moment.
Ev(k, a, f, i, s, x) ==
  [k |-> k, a |-> a, f |-> f, i |-> i, s |-> s, x |-> x, o |-> << >>, lv |-> {}]
Log(S, e) == [S EXCEPT !.tr = Append(@, [e EXCEPT !.o = S.out, !.lv = LiveOf(S.ars)])]

FreeAddrs(h) == {a \in 1..MaxAR : ~h[a].live}
FirstFree(h) == CHOOSE x \in FreeAddrs(h) : \A y \in FreeAddrs(h) : x <= y

NewAt(S, fn, a) ==
  [S |-> Log([S EXCEPT !.ars[a] = FreshAR(fn)], Ev("new", a, fn, 0, "", <<>>)), a |-> a]

\* new LocalAdelAR<...>(adel_body)
New(S, fn) == NewAt(S, fn, FirstFree(S.ars))

\* a variant of clear that empties the slot and deletes nothing
ClearLeaks(S, a, i) == [S EXCEPT !.ars[a].ch[i] = 0]

RECURSIVE Delete(_, _), Clear(_, _, _)

\* AdelAR::clear(i)
Clear(S, a, i) ==
  IF S.ars[a].ch[i] # 0
  THEN Delete([S EXCEPT !.ars[a].ch[i] = 0], S.ars[a].ch[i])
  ELSE S

Free(S, a, fn) == Log([S EXCEPT !.ars[a] = NoAR], Ev("del", a, fn, 0, "", <<>>))

\* a variant of delete that frees the record and leaves its children alone
DeleteShallow(S, a) == Free(S, a, S.ars[a].fn)

\* delete ar: ~AdelAR() clears the three children, then the record is freed
Delete(S, a) == Free(Clear(Clear(Clear(S, a, 0), a, 1), a, 2), a, S.ars[a].fn)

\* a variant of init that overwrites the slot without clearing it
InstallOver(n, a, i) == [n.S EXCEPT !.ars[a].ch[i] = n.a]

Install(n, a, i) == [Clear(n.S, a, i) EXCEPT !.ars[a].ch[i] = n.a]

\* AdelAR::init(i, f): the argument f is evaluated (allocated) first
InitCh(S, a, i, fn) == Install(New(S, fn), a, i)

-----------------------------------------------------------------------------
(* One step of an activation record.  A construct either returns a status   *)
(* from the step (Stop) or falls through to an instruction (Go).            *)

Stop(S, st) == [S |-> S, st |-> st, next |-> 0]
Go(S, n) == [S |-> S, st |-> "ANONE", next |-> n]

\* a variant in which the marker is one variable of the routine, shared by
\* its instances
SetPcStatic(S, a, m) ==
  [S EXCEPT !.ars = [b \in 1..MaxAR |->
                       IF S.ars[b].live /\ S.ars[b].fn = S.ars[a].fn
                       THEN [S.ars[b] EXCEPT !.pc = m] ELSE S.ars[b]]]

SetPc(S, a, m) == [S EXCEPT !.ars[a].pc = m]

\* history only: an operator is entered at the current clock value
Enter(S, a) == [S EXCEPT !.ars[a].ent = now]

\* history only: a branching operator is entered; nothing is recorded yet
EnterBranch(S, a) == [S EXCEPT !.ars[a].ent = now, !.ars[a].rec = 0, !.ars[a].br = {}]

\* history only: whether the child in slot i has ever reported ADONE
Fin(S, a, i) == IF S.ars[a].ch[i] = 0 THEN FALSE ELSE S.ars[S.ars[a].ch[i]].fin
Seen2(S, a, fs, gs) == <<fs, gs, Fin(S, a, 0), Fin(S, a, 1)>>

\* history only: an operator returns ACONT from its polling point, or is
\* completed; the event holds the clock at its entry and what it saw
Waiting(S, a, i, op, x) ==
  Stop(Log(S, Ev("wait", a, S.ars[a].fn, i, op, <<S.ars[a].ent>> \o x)), "ACONT")
Passed(S, a, i, op, x) == Log(S, Ev("pass", a, S.ars[a].fn, i, op, <<S.ars[a].ent>> \o x))

\* a variant of aend that returns ADONE and leaves adel_pc where it was
AEndKeepsPc(S, a) == Stop(S, "ADONE")

\* aend: adel_pc = ADEL_FINALLY; return astatus::ADONE
AEnd(S, a) == Stop(SetPc(S, a, ADEL_FINALLY), "ADONE")

\* afinish: adel_pc = ADEL_FINALLY; return astatus::ACONT
DoFinish(S, a) == Stop(SetPc(S, a, ADEL_FINALLY), "ACONT")

\* a variant of the test of adelay that still waits at the deadline
DelayWaitsLe(n, w) == n <= w

\* adelay: if (millis() < adel_wait) return ACONT
DelayWaits(n, w) == n < w

DelayDecide(S, a, i) ==
  IF DelayWaits(now, S.ars[a].wait)
  THEN Stop(Log(S, Ev("delay", a, S.ars[a].fn, i, "wait", <<S.ars[a].ent, S.ars[a].dur>>)),
            "ACONT")
  ELSE Go(Log(S, Ev("delay", a, S.ars[a].fn, i, "pass", <<S.ars[a].ent, S.ars[a].dur>>)),
          i + 1)

\* adel_pc = anextstep; adel_wait = millis() + t.  dur is history: the value
\* t had here.
DelayEnter(S, a, i, t) ==
  [S EXCEPT !.ars[a].ent = now, !.ars[a].dur = t, !.ars[a].pc = 10 * i,
            !.ars[a].wait = Add32(now, t)]

\* the argument t is an expression: a number, or one that depends on a pin
DoDelay(S, a, i, m, ins) ==
  DelayDecide(IF m = "entry"
              THEN DelayEnter(S, a, i,
                              IF ins.v = "" THEN ins.t
                              ELSE IF pin[ins.v] THEN ins.to ELSE ins.t)
              ELSE S,
              a, i)

\* map(x, in_min, in_max, out_min, out_max) of the Arduino core:
\* (x - in_min) * (out_max - out_min) / (in_max - in_min) + out_min in long
\* arithmetic, the division truncating toward zero.  The clock arguments are
\* uint32_t values converted to long, so their differences are the 32-bit
\* differences.
Map(x, in_min, in_max, out_min, out_max) ==
  (IF out_max >= out_min
   THEN (Sub32(x, in_min) * (out_max - out_min)) \div Sub32(in_max, in_min)
   ELSE -((Sub32(x, in_min) * (out_min - out_max)) \div Sub32(in_max, in_min)))
  + out_min

\* aramp: while ((millis() <= (adel_ramp_start + T)) &&
\*               ((v = map(...)) == v) && (adel_pc = anextstep))
\* the argument T is an expression, evaluated where the macro puts it, in
\* the test of the loop: a number, or one less a variable the body assigns
RampT(S, ins) == IF ins.h = "" THEN ins.t ELSE ins.t - S.out[ins.h]

DoRamp(S, a, i, ins) ==
  IF now <= Add32(S.ars[a].ramp, RampT(S, ins))
  THEN Go(Log([S EXCEPT !.out[ins.v] = Map(now, S.ars[a].ramp, Add32(S.ars[a].ramp, RampT(S, ins)),
                                           ins.lo, ins.hi),
                        !.ars[a].pc = 10 * i],
              Ev("ramp", a, S.ars[a].fn, i, "body",
                 <<S.ars[a].ramp, RampT(S, ins),
                   Map(now, S.ars[a].ramp, Add32(S.ars[a].ramp, RampT(S, ins)), ins.lo, ins.hi)>>)),
          i + 1)
  ELSE Go(Log(S, Ev("ramp", a, S.ars[a].fn, i, "exit", <<S.ars[a].ramp, RampT(S, ins), 0>>)), ins.to)

\* a variant of await that reports Yielded while the condition is false
AwaitYields(S, a, i, p) == IF ~pin[p] THEN Stop(S, "AYIELD") ELSE Go(S, i + 1)

\* await( c ): if ( ! ( c ) ) return ACONT
AwaitDecide(S, a, i, p) == IF ~pin[p] THEN Stop(S, "ACONT") ELSE Go(S, i + 1)

DoAwait(S, a, i, m, ins) ==
  AwaitDecide(IF m = "entry" THEN SetPc(S, a, 10 * i) ELSE S, a, i, ins.v)

\* ayourturn: adel_pc = anextstep; return AYIELD; case anextstep: ;
DoYourTurn(S, a, i, m) ==
  IF m = "entry" THEN Stop(SetPc(S, a, 10 * i), "AYIELD") ELSE Go(S, i + 1)

RECURSIVE Run(_, _)

\* a variant of runchild that calls run() twice
RunChildTwice(S, a, i) == Run(Run(S, S.ars[a].ch[i]).S, S.ars[a].ch[i])

\* AdelAR::runchild(i); a null child is logged, it has no defined result
RunChild(S, a, i) ==
  IF S.ars[a].ch[i] = 0
  THEN [S |-> Log(S, Ev("null", a, S.ars[a].fn, i, "", <<>>)), st |-> "ANONE"]
  ELSE Run(S, S.ars[a].ch[i])

\* a variant of the andthen test that waits on ACONT only
SeqWaitsCont(fs) == cont(fs)

\* andthen: if ( f_status.notdone() ) return ACONT
SeqWaits(fs) == notdone(fs)

\* a variant of andthen that reports the Yielded of its child as its own
SeqPassesYield(r, a, i) ==
  IF SeqWaits(r.st)
  THEN [Waiting(r.S, a, i, "andthen", <<r.st>>)
          EXCEPT !.st = IF yield(r.st) THEN "AYIELD" ELSE "ACONT"]
  ELSE Go(Passed(Clear(r.S, a, 0), a, i, "andthen", <<r.st>>), i + 1)

\* a variant of andthen that clears its child on every poll
SeqClearsEarly(r, a, i) ==
  IF SeqWaits(r.st)
  THEN Waiting(Clear(r.S, a, 0), a, i, "andthen", <<r.st>>)
  ELSE Go(Passed(Clear(r.S, a, 0), a, i, "andthen", <<r.st>>), i + 1)

SeqDecide(r, a, i) ==
  IF SeqWaits(r.st)
  THEN Waiting(r.S, a, i, "andthen", <<r.st>>)
  ELSE Go(Passed(Clear(r.S, a, 0), a, i, "andthen", <<r.st>>), i + 1)

SeqEnter(S, a, i, ins) == InitCh(SetPc(Enter(S, a), a, 10 * i), a, 0, ins.f)

DoAndThen(S, a, i, m, ins) ==
  SeqDecide(RunChild(IF m = "entry" THEN SeqEnter(S, a, i, ins) ELSE S, a, 0), a, i)

\* a variant of the aforatmost test that looks at f only
RaceWaitsChild(fs, n, w) == notdone(fs)

\* aforatmost: if (f_status.notdone() && millis() < adel_wait) return ACONT
RaceWaits(fs, n, w) == notdone(fs) /\ n < w

\* aforatmost: if (f_status.done()) adel_pc = alaterstep(1); else alaterstep(2)
RaceMark(fs, i) == IF done(fs) THEN 10 * i + 1 ELSE 10 * i + 2

\* aforatmost: if ( adel_pc != alaterstep(1) ) runs the block that follows
RaceRunsBlock(pc, i) == pc # 10 * i + 1

RaceAfter(S, a, i, to) == IF RaceRunsBlock(S.ars[a].pc, i) THEN Go(S, i + 1) ELSE Go(S, to)

RaceRecord(S, a, i, fs) ==
  Passed([S EXCEPT !.ars[a].pc = RaceMark(fs, i),
                   !.ars[a].rec = IF done(fs) THEN 1 ELSE 2],
         a, i, "aforatmost", <<fs>>)

\* a variant in which a deadline that has been reached decides alone
RaceDeadlineWins(r, a, i, to) ==
  IF RaceWaits(r.st, now, r.S.ars[a].wait)
  THEN Waiting(r.S, a, i, "aforatmost", <<r.st>>)
  ELSE RaceAfter(RaceRecord(Clear(r.S, a, 0), a, i,
                            IF now < r.S.ars[a].wait THEN r.st ELSE "ACONT"),
                 a, i, to)

RaceDecide(r, a, i, to) ==
  IF RaceWaits(r.st, now, r.S.ars[a].wait)
  THEN Waiting(r.S, a, i, "aforatmost", <<r.st>>)
  ELSE RaceAfter(RaceRecord(Clear(r.S, a, 0), a, i, r.st), a, i, to)

RaceEnter(S, a, i, ins) ==
  [InitCh(SetPc(EnterBranch(S, a), a, 10 * i), a, 0, ins.f)
     EXCEPT !.ars[a].wait = Add32(now, ins.t)]

DoForAtMost(S, a, i, m, ins) ==
  IF m \in {"c1", "c2"}
  THEN RaceAfter(S, a, i, ins.to)
  ELSE RaceDecide(RunChild(IF m = "entry" THEN RaceEnter(S, a, i, ins) ELSE S, a, 0),
                  a, i, ins.to)

\* a variant of the aboth test that takes a Yielded child for a finished one
BothWaitsCont(fs, gs) == cont(fs) \/ cont(gs)

\* aboth: if (f_status.notdone() || g_status.notdone()) return ACONT
BothWaits(fs, gs) == notdone(fs) \/ notdone(gs)

BothDecide(fs, rg, a, i) ==
  IF BothWaits(fs, rg.st)
  THEN Waiting(rg.S, a, i, "aboth", Seen2(rg.S, a, fs, rg.st))
  ELSE Go(Passed(Clear(Clear(rg.S, a, 0), a, 1), a, i, "aboth", Seen2(rg.S, a, fs, rg.st)),
          i + 1)

BothSecond(rf, a, i) == BothDecide(rf.st, RunChild(rf.S, a, 1), a, i)

TwoEnter(S, a, i, ins) == InitCh(InitCh(SetPc(S, a, 10 * i), a, 0, ins.f), a, 1, ins.g)

\* a variant of aboth that runs the second child before the first
BothFirstDone(gs, rf, a, i) == BothDecide(rf.st, [S |-> rf.S, st |-> gs], a, i)
BothFirstAfter(rg, a, i) == BothFirstDone(rg.st, RunChild(rg.S, a, 0), a, i)
DoBothSwapped(S, a, i, m, ins) ==
  BothFirstAfter(RunChild(IF m = "entry" THEN TwoEnter(Enter(S, a), a, i, ins) ELSE S, a, 1),
                 a, i)

DoBoth(S, a, i, m, ins) ==
  BothSecond(RunChild(IF m = "entry" THEN TwoEnter(Enter(S, a), a, i, ins) ELSE S, a, 0),
             a, i)

\* athree: if (f.notdone() || g.notdone() || h.notdone()) return ACONT
ThreeWaits(fs, gs, hs) == notdone(fs) \/ notdone(gs) \/ notdone(hs)

ThreeDecide(fs, gs, rh, a, i) ==
  IF ThreeWaits(fs, gs, rh.st)
  THEN Waiting(rh.S, a, i, "athree", <<fs, gs, rh.st>>)
  ELSE Go(Passed(rh.S, a, i, "athree", <<fs, gs, rh.st>>), i + 1)

ThreeThird(fs, rg, a, i) == ThreeDecide(fs, rg.st, RunChild(rg.S, a, 2), a, i)
ThreeSecond(rf, a, i) == ThreeThird(rf.st, RunChild(rf.S, a, 1), a, i)

ThreeEnter(S, a, i, ins) == InitCh(TwoEnter(Enter(S, a), a, i, ins), a, 2, ins.h)

DoThree(S, a, i, m, ins) ==
  ThreeSecond(RunChild(IF m = "entry" THEN ThreeEnter(S, a, i, ins) ELSE S, a, 0), a, i)

\* auntil: if (f_status.notdone() && g_status.notdone()) return ACONT
UntilWaits(fs, gs) == notdone(fs) /\ notdone(gs)

\* auntil: if (f_status.done()) adel_pc = alaterstep(1); else alaterstep(2)
UntilMark(fs, i) == IF done(fs) THEN 10 * i + 1 ELSE 10 * i + 2

\* a variant of the auntil branch test with >= for ==
UntilRunsThenGe(pc, i) == pc >= 10 * i + 1

\* auntil: if ( adel_pc == alaterstep(1) ) runs the true branch
UntilRunsThen(pc, i) == pc = 10 * i + 1

UntilAfter(S, a, i, to) == IF UntilRunsThen(S.ars[a].pc, i) THEN Go(S, i + 1) ELSE Go(S, to)

UntilRecord(S, a, i, fs, x) ==
  Passed([S EXCEPT !.ars[a].pc = UntilMark(fs, i),
                   !.ars[a].rec = IF done(fs) THEN 1 ELSE 2],
         a, i, "auntil", x)

\* a variant in which a finished second operand decides
UntilSecondWins(fs, rg, a, i, to) ==
  IF UntilWaits(fs, rg.st)
  THEN Waiting(rg.S, a, i, "auntil", Seen2(rg.S, a, fs, rg.st))
  ELSE UntilAfter(UntilRecord(Clear(Clear(rg.S, a, 0), a, 1), a, i,
                              IF done(rg.st) THEN "ACONT" ELSE fs,
                              Seen2(rg.S, a, fs, rg.st)),
                  a, i, to)

UntilDecide(fs, rg, a, i, to) ==
  IF UntilWaits(fs, rg.st)
  THEN Waiting(rg.S, a, i, "auntil", Seen2(rg.S, a, fs, rg.st))
  ELSE UntilAfter(UntilRecord(Clear(Clear(rg.S, a, 0), a, 1), a, i, fs,
                              Seen2(rg.S, a, fs, rg.st)),
                  a, i, to)

UntilSecond(rf, a, i, to) == UntilDecide(rf.st, RunChild(rf.S, a, 1), a, i, to)

DoUntil(S, a, i, m, ins) ==
  IF m \in {"c1", "c2"}
  THEN UntilAfter(S, a, i, ins.to)
  ELSE UntilSecond(RunChild(IF m = "entry" THEN TwoEnter(EnterBranch(S, a), a, i, ins) ELSE S,
                            a, 0),
                   a, i, ins.to)

\* alternate, case alaterstep(1): step g; Continuing keeps the marker,
\* Yielded moves it to alaterstep(0), anything else falls through
AltG(rg, a, i) ==
  IF cont(rg.st) THEN Waiting(rg.S, a, i, "alternate", <<"g", rg.st>>)
  ELSE IF yield(rg.st)
       THEN Waiting(SetPc(rg.S, a, 10 * i), a, i, "alternate", <<"g", rg.st>>)
       ELSE Go(Passed(rg.S, a, i, "alternate", <<"g", rg.st>>), i + 1)

\* a variant of case alaterstep(0) in which a Yielded f keeps the turn
AltFKeepsTurn(rf, a, i) ==
  IF cont(rf.st) \/ yield(rf.st) THEN Waiting(rf.S, a, i, "alternate", <<"f", rf.st>>)
  ELSE AltG(RunChild(SetPc(rf.S, a, 10 * i + 2), a, 1), a, i)

\* alternate, case alaterstep(0): step f; Continuing keeps the marker,
\* Yielded moves it to alaterstep(1), anything else sets alaterstep(2) and
\* falls through into case alaterstep(1)
AltF(rf, a, i) ==
  IF cont(rf.st) THEN Waiting(rf.S, a, i, "alternate", <<"f", rf.st>>)
  ELSE IF yield(rf.st)
       THEN Waiting(SetPc(rf.S, a, 10 * i + 1), a, i, "alternate", <<"f", rf.st>>)
       ELSE AltG(RunChild(SetPc(rf.S, a, 10 * i + 2), a, 1), a, i)

DoAlternate(S, a, i, m, ins) ==
  IF m = "c2" THEN Go(S, i + 1)
  ELSE IF m = "c1" THEN AltG(RunChild(S, a, 1), a, i)
  ELSE AltF(RunChild(IF m = "entry" THEN TwoEnter(Enter(S, a), a, i, ins) ELSE S, a, 0), a, i)

\* one instruction of a body
Perform(S, a, i, m, ins) ==
  CASE ins.op = "write" -> Go([S EXCEPT !.out[ins.v] = ins.t], i + 1)
    [] ins.op = "goto" -> Go(S, ins.to)
    [] ins.op = "again" -> Go(S, -ins.to)
    [] ins.op = "aramp" ->
         \* adel_pc = anextstep; adel_ramp_start = millis()
         DoRamp(IF m = "entry" THEN [S EXCEPT !.ars[a].pc = 10 * i, !.ars[a].ramp = now]
                ELSE S,
                a, i, ins)
    [] ins.op = "adelay" -> DoDelay(S, a, i, m, ins)
    [] ins.op = "await" -> DoAwait(S, a, i, m, ins)
    [] ins.op = "ayourturn" -> DoYourTurn(S, a, i, m)
    [] ins.op = "afinish" -> DoFinish(S, a)
    [] ins.op = "andthen" -> DoAndThen(S, a, i, m, ins)
    [] ins.op = "aforatmost" -> DoForAtMost(S, a, i, m, ins)
    [] ins.op = "aboth" -> DoBoth(S, a, i, m, ins)
    [] ins.op = "athree" -> DoThree(S, a, i, m, ins)
    [] ins.op = "auntil" -> DoUntil(S, a, i, m, ins)
    [] ins.op = "alternate" -> DoAlternate(S, a, i, m, ins)

\* history only: instruction i is executed, inside branch body blk if any
Mark(S, a, i, m, blk) ==
  Log([S EXCEPT !.ars[a].br = IF blk = "" THEN @ ELSE @ \cup {blk}],
      Ev("exec", a, S.ars[a].fn, i, m,
         <<S.ars[a].rec, IF blk = "" THEN S.ars[a].br ELSE S.ars[a].br \cup {blk},
           S.ars[a].ch>>))

RECURSIVE Exec(_, _, _, _)

\* a negative next is a jump back to the test of a loop: the test is
\* evaluated, the statements before its case label are not executed
Continue(r, a) ==
  IF r.next = 0 THEN r
  ELSE Exec(r.S, a, IF r.next < 0 THEN -r.next ELSE r.next,
            IF r.next < 0 THEN "c0" ELSE "entry")

\* the body of the lambda from instruction i on; m tells whether i is entered
\* from the statement before it or through one of its case labels
Exec(S, a, i, m) ==
  IF i > Len(Body(S.ars[a].fn))
  THEN AEnd(S, a)
  ELSE Continue(Perform(Mark(S, a, i, m, Body(S.ars[a].fn)[i].blk), a, i, m,
                        Body(S.ars[a].fn)[i]),
                a)

\* switch (adel_pc): the case label a saved marker resumes at
CaseOf(pc) == IF pc % 10 = 1 THEN "c1" ELSE IF pc % 10 = 2 THEN "c2" ELSE "c0"

\* a variant without the switch: every step of an unfinished body starts at
\* its first statement
DispatchFromTop(S, a, pc) ==
  IF pc = ADEL_FINALLY THEN AEnd(S, a) ELSE Exec(S, a, 1, "entry")

Dispatch(S, a, pc) ==
  IF pc = 0 THEN Exec(S, a, 1, "entry")
  ELSE IF pc = ADEL_FINALLY THEN AEnd(S, a)
  ELSE Exec(S, a, pc \div 10, CaseOf(pc))

Min(x, y) == IF x < y THEN x ELSE y

\* history only: the step of a that ends with status st is counted
Account(S, a, st) ==
  [S EXCEPT !.ars[a].ns = Min(@ + 1, MaxSteps),
            !.ars[a].last = st,
            !.ars[a].fin = @ \/ done(st)]

LogRet(S, a, st, fn) == Log(S, Ev("ret", a, fn, S.ars[a].ns, st, <<S.ars[a].ch>>))

Returned(r, a, fn) == [S |-> LogRet(Account(r.S, a, r.st), a, r.st, fn), st |-> r.st]

LogStep(S, a) ==
  Log(S, Ev("step", a, S.ars[a].fn, S.ars[a].pc, S.ars[a].last, <<S.ars[a].ch>>))

\* LocalAdelAR::run(): one call of the lambda
Run(S, a) == Returned(Dispatch(LogStep(S, a), a, S.ars[a].pc), a, S.ars[a].fn)

-----
(* Sketches: the top-level call sites of loop(), in order *)

Call(pol, fn, t) == [pol |-> pol, fn |-> fn, T |-> t]

Loop(p) ==
  CASE p = "seq" -> << Call("aonce", "seqAB", 0) >>
    [] p = "both" -> << Call("arepeat", "bothT", 0) >>
    [] p = "bothw" -> << Call("arepeat", "bothW", 0) >>
    [] p = "until" -> << Call("arepeat", "untilT", 0) >>
    [] p = "untilw" -> << Call("arepeat", "untilW", 0) >>
    [] p = "race400" -> << Call("arepeat", "race400", 0) >>
    [] p = "race100" -> << Call("arepeat", "race100", 0) >>
    [] p = "racew" -> << Call("arepeat", "raceW", 0) >>
    [] p = "raceb" -> << Call("arepeat", "raceB", 0) >>
    [] p = "alt" -> << Call("arepeat", "altW", 0) >>
    [] p = "alty" -> << Call("arepeat", "altY", 0) >>
    [] p = "mail" -> << Call("arepeat3", "mailAlt", 0) >>
    [] p = "deep" -> << Call("arepeat3", "deep3", 0) >>
    [] p = "every" -> << Call("arepeat3", "cons", 0) >>
    [] p = "race0" -> << Call("arepeat", "race0", 0) >>
    [] p = "tog" -> << Call("aforever", "tog2", 0) >>
    [] p = "delayp" -> << Call("arepeat", "delayP", 0) >>
    [] p = "ramp" -> << Call("arepeat", "fade", 0) >>
    [] p = "rampd" -> << Call("arepeat", "fadeD", 0) >>
    [] p = "rampt" -> << Call("arepeat", "fadeT", 0) >>
    [] p = "yops" -> << Call("arepeat", "yieldOps", 0) >>
    [] p = "racey" -> << Call("arepeat", "raceY", 0) >>
    [] p = "untily" -> << Call("arepeat", "untilY", 0) >>
    [] p = "fin" -> << Call("arepeat", "nestF", 0) >>
    [] p = "twin" -> << Call("arepeat", "altBB", 0) >>
    [] p = "realt" -> << Call("arepeat", "altL", 0) >>
    [] p = "pair" -> << Call("arepeat", "nestQ", 0), Call("arepeat", "seqAB", 0) >>
    [] p = "multi" -> << Call("arepeat", "stepsA", 0), Call("aevery", "timeout100", 200),
                         Call("aonce", "stepsB", 0) >>

Progs == {"seq", "both", "bothw", "until", "untilw", "race400", "race100", "racew",
          "raceb", "alt", "alty", "mail", "deep", "every", "delayp",
          "ramp", "rampd", "rampt", "pair", "yops", "racey", "untily", "fin", "realt", "twin", "multi", "tog", "race0"}

MaxSites == 3
Sites == 1..MaxSites

\* the sketches that read millis()
Timed == {"both", "until", "race400", "race100", "racew", "raceb", "delayp", "ramp",
          "rampd", "rampt", "multi"}

\* the input pins a sketch reads
PinsOf(p) ==
  CASE p \in {"bothw", "alt", "mail", "tog"} -> {"p", "q"}
    [] p \in {"untilw"} -> {"p", "q"}
    [] p \in {"racew", "pair", "realt", "race0"} -> {"q"}
    [] p \in {"delayp"} -> {"p"}
    [] OTHER -> {}

-----------------------------------------------------------------------------
(* The revision with the turn mailbox (src/unnamed/part_001): activation    *)
(* records live in a per-call-site array indexed like a binary heap, and    *)
(* each record has a field val.                                             *)

\* AdelAR * stack[1 << ADEL_STACK_DEPTH], with ADEL_STACK_DEPTH defined as 2
\* by the sketch: the indices of the array are 0..MaxIndex, the root 0, its
\* children 1 and 2, and the first child 3 of the first child
MaxIndex == 3

\* AdelAR() : val(0), pc(0); adel_condition is captured by the lambda.  who
\* and sent are history: the index of the latest task that passed a value to
\* this record, and that value.
NoAR3 == [live |-> FALSE, fn |-> "", pc |-> 0, val |-> 0, cond |-> FALSE, who |-> 0, sent |-> 0]

\* achild(c): (a_my_index << 1) + c
Child(c, k) == 2 * c + k

\* a variant of acallerar that names the record of the task itself
CallerSelf(c) == c

\* acallerar: stack[(a_my_index - 1) >> 1]
Caller(c) == (c - 1) \div 2

\* An index above MaxIndex is outside the array: the macros do not test it.
\* What such an access does is not defined.  Of the outcomes, a pass takes one
\* of Wild: the garbage that is called there reports status st, and the zero
\* that ainit stores there lands on slot hit of the array, or on none of
\* them (-1).
Wild == [st : {"ADONE", "ACONT", "AYIELD"}, hit : -1..MaxIndex]

Past(S, c, what) == [S EXCEPT !.tr = Append(@, Ev("oob", c, "", 0, what, <<>>))]

\* ainit(c): delete stack[c]; stack[c] = 0
AInit(S, c) ==
  IF c <= MaxIndex THEN [S EXCEPT !.st[c] = NoAR3]
  ELSE IF S.ub.hit < 0 THEN Past(S, c, "ainit")
  ELSE [Past(S, c, "ainit") EXCEPT !.st[S.ub.hit] = NoAR3]

\* ainit(c) of part_000: stack[c]->line = 0.  The slot is empty until the
\* task at c has run once, and then the zero is stored through a null
\* pointer: it lands on the line of slot hit, or on none of the records.
ALine(S, c) ==
  IF c > MaxIndex THEN Past(S, c, "ainit")
  ELSE IF S.st[c].live THEN [S EXCEPT !.st[c].pc = 0]
  ELSE IF S.ub.hit < 0 THEN S
  ELSE [S EXCEPT !.st[S.ub.hit].pc = 0]

\* aforevery, after acall(f_status, 1, f): if (f_status.cont()) return CONT;
\* if ( f_status.yield() ) { block } and then the statement after it
\* (history: the status f reported, and the entry into the block)
Note3(S, k, c, i, s) == [S EXCEPT !.tr = Append(@, Ev(k, c, S.st[c].fn, i, s, <<>>))]

ForEveryAfter(r, c, i, to) ==
  IF cont(r.st) THEN Stop(Note3(r.S, "poll", c, i, r.st), "ACONT")
  ELSE IF yield(r.st)
  THEN Go(Note3(Note3(r.S, "poll", c, i, r.st), "block", c, i, r.st), i + 1)
  ELSE Go(Note3(r.S, "poll", c, i, r.st), to)

\* ayourturn(v): adel_pc = anextstep; acallerar->val = v; return AYIELD
YourTurn3(S, c, i, m, v) ==
  IF m = "entry"
  THEN Stop([S EXCEPT !.tr = Append(@, Ev("yield", c, S.st[c].fn, v, "", <<i>>)),
                      !.st[c].pc = 10 * i,
                      !.st[Caller(c)].val = v,
                      !.st[Caller(c)].who = c,
                      !.st[Caller(c)].sent = v],
            "AYIELD")
  ELSE Go(S, i + 1)

\* x = amyturn: x = acallerar->val
MyTurn3(S, c, i, v) ==
  Go([S EXCEPT !.out[v] = S.st[Caller(c)].val,
                !.tr = Append(@, Ev("read", c, S.st[c].fn, S.st[Caller(c)].val, "",
                                    <<S.st[Caller(c)].who, S.st[Caller(c)].sent, i>>))],
     i + 1)

RECURSIVE Call3(_, _, _)

\* ainit(c) of part_002: AdelAR * ar = stack[c]; if (ar) ar->line = 0
AInitLine(S, c) ==
  IF c > MaxIndex THEN Past(S, c, "ainit")
  ELSE IF S.st[c].live THEN [S EXCEPT !.st[c].pc = 0]
  ELSE S

\* atogether: if (f_status.cont() || g_status.cont()) return adel::CONT
\* (history: the status each child reported)
TogetherEnd(r, fs, c, i) ==
  IF cont(fs) \/ cont(r.st)
  THEN Stop(Note3(r.S, "cret", Child(c, 2), i, r.st), "ACONT")
  ELSE Go(Note3(r.S, "cret", Child(c, 2), i, r.st), i + 1)

\* atogether: acall(f_status, 1, f); acall(g_status, 2, g)
Together(r, c, i, ins) ==
  TogetherEnd(Call3(Note3(r.S, "cret", Child(c, 1), i, r.st), Child(c, 2), ins.g),
              r.st, c, i)

\* alternate: what follows the call of the child that holds the turn
Alt3After(r, c, i, flip) ==
  IF cont(r.st) THEN Stop(r.S, "ACONT")
  ELSE IF yield(r.st) THEN Stop([r.S EXCEPT !.st[c].cond = flip], "ACONT")
  ELSE Go(r.S, i + 1)

\* alternate: if (adel_condition) acall(f_status, 1, f) else acall(g_status, 2, g)
Alt3Poll(S, c, i, ins) ==
  IF S.st[c].cond
  THEN Alt3After(Call3(S, Child(c, 1), ins.f), c, i, FALSE)
  ELSE Alt3After(Call3(S, Child(c, 2), ins.g), c, i, TRUE)

Perform3(S, c, i, m, ins) ==
  CASE ins.op = "write" -> Go([S EXCEPT !.out[ins.v] = ins.t], i + 1)
    [] ins.op = "await" ->
         IF ~pin[ins.v]
         THEN Stop(IF m = "entry" THEN [S EXCEPT !.st[c].pc = 10 * i] ELSE S, "ACONT")
         ELSE Go(S, i + 1)
    [] ins.op = "ayourturnv" ->
         YourTurn3(S, c, i, m,
                   IF ins.v = "" THEN ins.t ELSE IF pin[ins.v] THEN ins.to ELSE ins.t)
    [] ins.op = "amyturn" -> MyTurn3(S, c, i, ins.v)
    [] ins.op = "ayield" ->
         \* my(line) = __LINE__; return adel::YIELD; case __LINE__:
         IF m = "entry" THEN Stop([S EXCEPT !.st[c].pc = 10 * i], "AYIELD") ELSE Go(S, i + 1)
    [] ins.op = "stmt" ->
         \* a statement of the body (history: that it was executed)
         Go(Note3(S, "stmt", c, i, ""), i + 1)
    [] ins.op = "aend" ->
         \* aend of part_002: case ADEL_FINALLY: ; } return adel::DONE
         Stop(S, "ADONE")
    [] ins.op = "atogether" ->
         \* my(line) = __LINE__; ainit(achild(1)); ainit(achild(2)); case __LINE__:
         Together(Call3(IF m = "entry"
                        THEN AInitLine(AInitLine([S EXCEPT !.st[c].pc = 10 * i], Child(c, 1)),
                                       Child(c, 2))
                        ELSE S,
                        Child(c, 1), ins.f),
                  c, i, ins)
    [] ins.op = "aforevery" ->
         \* my(line) = __LINE__; ainit(achild(1)); ainit(achild(2)); case __LINE__:
         ForEveryAfter(Call3(IF m = "entry"
                             THEN ALine(ALine([S EXCEPT !.st[c].pc = 10 * i], Child(c, 1)),
                                        Child(c, 2))
                             ELSE S,
                             Child(c, 1), ins.f),
                       c, i, ins.to)
    [] ins.op = "alternate" ->
         \* adel_pc = anextstep; ainit(achild(1)); ainit(achild(2)); adel_condition = true
         Alt3Poll(IF m = "entry"
                  THEN [AInit(AInit(S, Child(c, 1)), Child(c, 2))
                          EXCEPT !.st[c].pc = 10 * i, !.st[c].cond = TRUE]
                  ELSE S,
                  c, i, ins)

\* aend: adel_pc = ADEL_FINALLY; return adel::ADONE
AEnd3(S, c) == Stop([S EXCEPT !.st[c].pc = ADEL_FINALLY], "ADONE")

RECURSIVE Exec3(_, _, _, _)

Continue3(r, c) == IF r.next = 0 THEN r ELSE Exec3(r.S, c, r.next, "entry")

Exec3(S, c, i, m) ==
  IF i > Len(Body(S.st[c].fn))
  THEN AEnd3(S, c)
  ELSE Continue3(Perform3(S, c, i, m, Body(S.st[c].fn)[i]), c)

\* a_this_ar->run(a_this_ar->pc, a_my_index): switch (adel_pc)
Dispatch3(S, c) ==
  IF S.st[c].pc = 0 THEN Exec3(S, c, 1, "entry")
  ELSE IF S.st[c].pc = ADEL_FINALLY THEN AEnd3(S, c)
  ELSE Exec3(S, c, S.st[c].pc \div 10, "c0")

\* a call of an Adel function at index c: the record is created if the slot
\* is empty, then the lambda is run
Call3(S, c, fn) ==
  IF c > MaxIndex THEN Stop(Past(S, c, "acall"), S.ub.st)
  ELSE Dispatch3(IF S.st[c].live THEN S
                 ELSE [S EXCEPT !.st[c] = [NoAR3 EXCEPT !.live = TRUE, !.fn = fn]], c)

-----------------------------------------------------------------------------
(* The state machine *)

\* The clock values a sketch is started at: 0, and WrapMargin units before
\* the clock wraps.  Two sketches are started at 0 only.  blink loops around
\* adelay, and an adelay whose deadline wraps does not wait, so that loop
\* spins inside one step until millis() itself wraps, while millis() does not
\* move within a pass here.  aevery restarts on every pass once its anexttime
\* has wrapped and millis() has not, adding T each time without bound.
Boots(p) == IF p \in {"raceb", "multi"} THEN {U0} ELSE {U0, (UMax - WrapMargin) + 1}

Init ==
  /\ prog \in Progs
  /\ now \in Boots(prog)
  /\ elapsed = 0
  /\ pin = [p \in Pins |-> FALSE]
  /\ out = [v \in Outs |-> 0]
  /\ ars = [a \in 1..MaxAR |-> NoAR]
  /\ root = [s \in Sites |-> 0]
  /\ anexttime = [s \in Sites |-> U0]
  /\ armed = [s \in Sites |-> FALSE]
  /\ site = 1
  /\ trace = << >>
  /\ stack = [c \in 0..MaxIndex |-> NoAR3]
  /\ born = [s \in Sites |-> U0]

Here == Loop(prog)[site]
NextSite == IF site = Len(Loop(prog)) THEN 1 ELSE site + 1

Start ==
  Log([ars |-> ars, out |-> out, tr |-> << >>], Ev("tick", site, Here.fn, now, Here.pol, <<>>))

\* a variant in which every call site uses the root slot of the first
LaunchShared(S) == IF root[1] = 0 THEN New(S, Here.fn) ELSE [S |-> S, a |-> root[1]]

\* if ( curStack->not_running() ) curStack->init( f );
Launch(S) == IF root[site] = 0 THEN New(S, Here.fn) ELSE [S |-> S, a |-> root[site]]

\* AdelRuntime::run() on the root
RunRoot(n) == [r |-> Run(n.S, n.a), a |-> n.a]

\* a variant of reset() that deletes the root record only
ResetLeaks(S, a) == IF a # 0 THEN DeleteShallow(S, a) ELSE S

\* AdelRuntime::reset()
Reset(S, a) == IF a # 0 THEN Delete(S, a) ELSE S

Commit(S) == ars' = S.ars /\ out' = S.out /\ trace' = S.tr

RepeatEnd(p) ==
  /\ Commit(IF done(p.r.st) THEN Reset(p.r.S, p.a) ELSE p.r.S)
  /\ root' = [root EXCEPT ![site] = IF done(p.r.st) THEN 0 ELSE p.a]

\* arepeat( f )
ARepeat ==
  /\ Here.pol = "arepeat"
  /\ RepeatEnd(RunRoot(Launch(Start)))
  /\ site' = NextSite
  /\ UNCHANGED <<prog, now, elapsed, pin, anexttime, armed, stack, born>>

\* aevery( T, f ): restart only when done and anexttime < millis()
EveryRestarts(st, nt, n) == done(st) /\ nt < n

EveryEnd(p, nt) ==
  /\ Commit(IF EveryRestarts(p.r.st, nt, now) THEN Reset(p.r.S, p.a) ELSE p.r.S)
  /\ root' = [root EXCEPT ![site] = IF EveryRestarts(p.r.st, nt, now) THEN 0 ELSE p.a]
  /\ anexttime' = [anexttime EXCEPT ![site] =
                     IF EveryRestarts(p.r.st, nt, now) THEN Add32(nt, Here.T) ELSE nt]

\* static uint32_t anexttime = millis() + T, initialized by the first call
NextTime == IF armed[site] THEN anexttime[site] ELSE Add32(now, Here.T)

AEvery ==
  /\ Here.pol = "aevery"
  /\ EveryEnd(RunRoot(Launch(Start)), NextTime)
  /\ armed' = [armed EXCEPT ![site] = TRUE]
  /\ born' = [born EXCEPT ![site] = IF root[site] = 0 THEN now ELSE @]
  /\ site' = NextSite
  /\ UNCHANGED <<prog, now, elapsed, pin, stack>>

\* a variant of the end of aonce that resets a finished run, as arepeat does
OnceEndResets(p) == RepeatEnd(p)

OnceEnd(p) == Commit(p.r.S) /\ root' = [root EXCEPT ![site] = p.a]

\* aonce( f )
AOnce ==
  /\ Here.pol = "aonce"
  /\ OnceEnd(RunRoot(Launch(Start)))
  /\ site' = NextSite
  /\ UNCHANGED <<prog, now, elapsed, pin, anexttime, armed, stack, born>>

Repeat3End(r) ==
  /\ stack' = (IF ~done(r.st) THEN r.S
               ELSE IF Here.pol = "aforever" THEN AInitLine(r.S, 0)
               ELSE AInit(r.S, 0)).st
  /\ out' = r.S.out
  /\ trace' = r.S.tr

\* arepeat( f ) of the revision with the mailbox: current = 0; f; ainit(0) if done
\* aforever( f ) of part_002: current = 0; f_status = f; if done, ainit(0)
ARepeat3 ==
  /\ Here.pol \in {"arepeat3", "aforever"}
  /\ \E u \in Wild :
       Repeat3End(Call3([st |-> stack, out |-> out, ub |-> u,
                         tr |-> << Ev("tick", site, Here.fn, now, Here.pol, <<>>) >>],
                        0, Here.fn))
  /\ site' = NextSite
  /\ UNCHANGED <<prog, now, elapsed, pin, ars, root, anexttime, armed, born>>

\* millis() advances between two top-level calls
Advance(d) ==
  /\ prog \in Timed
  /\ d \in (IF prog \in {"ramp", "rampd", "rampt"} THEN RampAdvances ELSE Advances)
  /\ elapsed + d <= (IF prog \in {"ramp", "rampd", "rampt"} THEN MaxRamp ELSE MaxElapsed)
  /\ now' = Add32(now, d)
  /\ elapsed' = elapsed + d
  /\ UNCHANGED <<prog, pin, out, ars, root, anexttime, armed, site, trace, stack, born>>

\* an input pin changes between two top-level calls
SetPin(p) ==
  /\ p \in PinsOf(prog)
  /\ pin' = [pin EXCEPT ![p] = ~@]
  /\ UNCHANGED <<prog, now, elapsed, out, ars, root, anexttime, armed, site, trace, stack,
               born>>

Next ==
  \/ ARepeat
  \/ AEvery
  \/ AOnce
  \/ ARepeat3
  \/ \E d \in Advances \cup RampAdvances : Advance(d)
  \/ \E p \in Pins : SetPin(p)

Spec == Init /\ [][Next]_vars

TypeOK ==
  /\ now \in U0..UMax
  /\ \A a \in 1..MaxAR : ars[a].live => \A i \in 0..2 : ars[a].ch[i] \in 0..MaxAR

-----------------------------------------------------------------------------
(* Properties.  They are stated over the events of the latest pass (trace)  *)
(* and over the activation records as the pass left them.                   *)

Events == DOMAIN trace

\* C1 (idempotent completion): a step of an instance whose previous step
\* returned Finished returns Finished again at once: its return directly
\* follows its start, so no statement of it runs and no record is created
\* or destroyed in between, and the outputs, the instance's children and
\* the set of live records are what they were when the step began.
C1_IdempotentCompletion ==
  \A k \in Events :
    (trace[k].k = "step" /\ trace[k].s = "ADONE")
      => /\ k + 1 \in Events
         /\ trace[k + 1].k = "ret"
         /\ trace[k + 1].a = trace[k].a
         /\ trace[k + 1].s = "ADONE"
         /\ trace[k + 1].o = trace[k].o
         /\ trace[k + 1].x = trace[k].x
         /\ trace[k + 1].lv = trace[k].lv

\* aboth polls a child that finished on an earlier pass while its sibling
\* is still running
C1_Witness ==
  /\ prog = "bothw"
  /\ \E k \in Events :
       /\ trace[k].k = "step" /\ trace[k].s = "ADONE" /\ trace[k].f = "workP"
       /\ \E j \in Events : trace[j].k = "wait" /\ trace[j].s = "aboth"

\* C2 (sequence step count, as the code has it): with A finishing on its
\* 2nd step and B on its 3rd, the parent andthen(A); andthen(B) returns
\* Finished on its 4th step and on no earlier one; B takes no step in the
\* parent's 1st step and takes its first step in the parent's 2nd step,
\* the step in which A reports Finished.
C2_SequenceFourthStep ==
  prog = "seq" =>
    \A k \in Events :
      trace[k].k = "ret" =>
        /\ trace[k].f = "stepsA" => (trace[k].s = "ADONE" <=> trace[k].i = 2)
        /\ trace[k].f = "stepsB" => (trace[k].s = "ADONE" <=> trace[k].i = 3)
        /\ trace[k].f = "seqAB" =>
             /\ trace[k].s = "ADONE" <=> trace[k].i >= 4
             /\ trace[k].i = 1 => \A j \in Events : trace[j].f # "stepsB"
             /\ trace[k].i = 2 =>
                  \E j \in Events :
                    /\ j + 2 < k
                    /\ trace[j].k = "ret" /\ trace[j].f = "stepsA" /\ trace[j].s = "ADONE"
                    /\ trace[j + 1].k = "del" /\ trace[j + 1].f = "stepsA"
                    /\ \E b \in Events :
                         b > j /\ b < k /\ trace[b].k = "ret" /\ trace[b].f = "stepsB"
                               /\ trace[b].i = 1

\* the parent's 4th step returns Finished, B having finished on its 3rd
C2_Witness ==
  /\ prog = "seq"
  /\ \E k \in Events :
       /\ trace[k].k = "ret" /\ trace[k].f = "seqAB"
       /\ trace[k].i = 4 /\ trace[k].s = "ADONE"
       /\ \E b \in Events :
            b < k /\ trace[b].k = "ret" /\ trace[b].f = "stepsB"
                  /\ trace[b].i = 3 /\ trace[b].s = "ADONE"

\* C2 as stated: the parent returns Finished on exactly its 5th step, and B
\* takes no step during the parent's steps 1 and 2.
C2_SequenceFifthStep ==
  prog = "seq" =>
    \A k \in Events :
      (trace[k].k = "ret" /\ trace[k].f = "seqAB")
        => /\ trace[k].s = "ADONE" <=> trace[k].i >= 5
           /\ trace[k].i \in {1, 2} => \A j \in Events : trace[j].f # "stepsB"

\* Helpers over the events of a pass: the clock at the start of the pass,
\* the time since the operator of event k was entered, the branch an
\* instruction belongs to, and whether the record of event k next executes
\* an instruction of branch b.
TickNow == trace[1].i
ElapsedAt(k) == Sub32(TickNow, trace[k].x[1])
BlockAt(k) == Body(trace[k].f)[trace[k].i].blk
RunsNext(k, b) ==
  /\ k + 1 \in Events
  /\ trace[k + 1].k = "exec"
  /\ trace[k + 1].a = trace[k].a
  /\ BlockAt(k + 1) = b

\* C3, first sentence: aboth returns Continuing on exactly the passes on
\* which some child has not yet reported Finished, completes on the pass on
\* which both have, and until then both children are alive and no record is
\* destroyed.
C3_JoinAllStatus ==
  \A k \in Events :
    trace[k].s = "aboth" =>
      /\ trace[k].k = "wait" <=> ~(trace[k].x[4] /\ trace[k].x[5])
      /\ trace[k].k = "pass" <=> (trace[k].x[4] /\ trace[k].x[5])
      /\ trace[k].k = "wait" =>
           /\ \A j \in 1..k : trace[j].k # "del"
           /\ trace[k + 1].k = "ret" /\ trace[k + 1].a = trace[k].a
           /\ trace[k + 1].s = "ACONT"
           /\ trace[k + 1].x[1][0] \in trace[k + 1].lv
           /\ trace[k + 1].x[1][1] \in trace[k + 1].lv

\* C3, second sentence: aboth of delays of 300 and 500 units never
\* completes while fewer than 500 units have elapsed since its entry.
C3_JoinAllDelays ==
  prog = "both" =>
    \A k \in Events :
      (trace[k].k = "pass" /\ trace[k].s = "aboth") => ElapsedAt(k) >= 500

\* C3 (join-all): both sentences.
C3_JoinAll == C3_JoinAllStatus /\ C3_JoinAllDelays

\* C4, first sentence: auntil returns Continuing while neither child has
\* reported Finished and completes on the first pass on which one has; the
\* true branch runs when only f has, the else branch when only g has.
C4_JoinAnyStatus ==
  \A k \in Events :
    trace[k].s = "auntil" =>
      /\ trace[k].k = "wait" <=> (~trace[k].x[4] /\ ~trace[k].x[5])
      /\ trace[k].k = "pass" <=> (trace[k].x[4] \/ trace[k].x[5])
      /\ (trace[k].k = "pass" /\ trace[k].x[4] /\ ~trace[k].x[5]) => RunsNext(k, "then")
      /\ (trace[k].k = "pass" /\ ~trace[k].x[4] /\ trace[k].x[5]) => RunsNext(k, "else")

\* C4, second sentence: auntil of delays of 300 (f) and 500 (g) units
\* completes at the first pass with at least 300 units elapsed since its
\* entry, and runs the true branch.
C4_JoinAnyDelays ==
  prog = "until" =>
    \A k \in Events :
      trace[k].s = "auntil" =>
        /\ trace[k].k = "wait" => ElapsedAt(k) < 300
        /\ trace[k].k = "pass" => (ElapsedAt(k) >= 300 /\ RunsNext(k, "then"))

\* C4 (join-any): both sentences.
C4_JoinAny == C4_JoinAnyStatus /\ C4_JoinAnyDelays

\* C5 (join-any cancels the loser immediately): on the pass in which f
\* reports Finished to auntil(f, g), g is not stepped.
C5_LoserNotStepped ==
  \A k \in Events :
    (trace[k].k = "pass" /\ trace[k].s = "auntil" /\ trace[k].x[2] = "ADONE")
      => \A j \in Events :
           ~(trace[j].k = "step" /\ trace[j].f = Body(trace[k].f)[trace[k].i].g)

\* C6 (cancellation is unconditional and silent): when auntil or aforatmost
\* completes (here in a task that is the only root), what happens between
\* the last return of a child and the completion is the destruction of
\* records and nothing else; at the completion, which precedes the branch
\* body, the owner is the only live record, so every child is destroyed
\* with its whole subtree; the outputs are what they were when the last
\* child returned; from then on only the owner acts in the pass; and no
\* record ever starts a step or executes an instruction while not alive.
C6_SilentCancellation ==
  /\ \A k \in Events : trace[k].k \in {"step", "exec", "ret"} => trace[k].a \in trace[k].lv
  /\ \A p \in Events :
       (trace[p].k = "pass" /\ trace[p].s \in {"auntil", "aforatmost"}) =>
         /\ trace[p].lv = {trace[p].a}
         /\ \A j \in Events : j > p => trace[j].a = trace[p].a
         /\ \E r \in 1..p :
              /\ trace[r].k = "ret"
              /\ \A j \in (r + 1)..(p - 1) : trace[j].k = "del"
              /\ trace[p].o = trace[r].o

\* auntil cancels a child that owns a running child of its own, after that
\* child wrote to an output
C6_Witness ==
  /\ prog = "untilw"
  /\ \E p \in Events :
       /\ trace[p].k = "pass" /\ trace[p].s = "auntil"
       /\ trace[p].x[2] = "ADONE" /\ trace[p].x[3] = "ACONT"
       /\ trace[p - 1].k = "del" /\ trace[p - 1].f = "nestQ"
       /\ trace[p - 2].k = "del" /\ trace[p - 2].f = "workQ"
       /\ trace[p].o["o2"] = 1
       /\ RunsNext(p, "then")

\* C7 (bounded-race branch selection): when f reports Finished before the
\* deadline the finished-first outcome is recorded and the block is
\* skipped; when a pass finds the deadline reached and f not Finished the
\* construct completes, timed out, and the block runs.  With T = 250 and an
\* f that does not report Finished before 400 units have elapsed, the
\* construct does not complete before 250 units and a completion before 400
\* units is a time-out; with an f that does not report Finished before 100
\* units have elapsed and does from then on, every completion is
\* finished-first and none comes before 100 units.
C7_RaceBranch ==
  \A k \in Events :
    trace[k].s = "aforatmost" =>
      /\ (trace[k].k = "pass" /\ trace[k].x[2] = "ADONE"
            /\ ElapsedAt(k) < Body(trace[k].f)[trace[k].i].t)
           => (RunsNext(k, "else") /\ trace[k + 1].x[1] = 1)
      /\ (trace[k].x[2] # "ADONE" /\ ElapsedAt(k) >= Body(trace[k].f)[trace[k].i].t)
           => (trace[k].k = "pass" /\ RunsNext(k, "then") /\ trace[k + 1].x[1] = 2)
      /\ (prog = "race400" /\ trace[k].k = "pass"
            /\ ~(trace[k].x[2] = "ADONE" /\ ElapsedAt(k) < 400))
           => /\ ElapsedAt(k) >= 250
              /\ ElapsedAt(k) < 400 => RunsNext(k, "then")
      /\ (prog = "race100" /\ trace[k].k = "pass"
            /\ ~(trace[k].x[2] = "ADONE" /\ ElapsedAt(k) < 100))
           => (ElapsedAt(k) >= 100 /\ RunsNext(k, "else"))

\* C8 (bounded race always ends): when the deadline entry + T does not wrap
\* and the clock has not wrapped since the entry, a pass that leaves
\* aforatmost(T, f) waiting has a clock before the deadline; so the pass
\* that finds the clock at or past entry + T completes the construct,
\* whatever f does.
C8_RaceEnds ==
  \A k \in Events :
    (trace[k].k = "wait" /\ trace[k].s = "aforatmost"
       /\ trace[k].x[1] <= UMax - Body(trace[k].f)[trace[k].i].t
       /\ TickNow >= trace[k].x[1])
      => TickNow - trace[k].x[1] < Body(trace[k].f)[trace[k].i].t

\* the race against a task that never finishes is ended by the deadline
C8_Witness ==
  /\ prog = "raceb"
  /\ \E k \in Events :
       /\ trace[k].k = "pass" /\ trace[k].s = "aforatmost"
       /\ trace[k].x[2] = "ACONT"
       /\ TickNow >= trace[k].x[1]
       /\ TickNow - trace[k].x[1] >= 250
       /\ trace[k - 1].k = "del" /\ trace[k - 1].f = "blink"

\* the tasks whose body is a branching operator with its two branches
Branching == {"untilT", "untilW", "untilY", "race400", "race100", "raceW", "raceB", "raceY",
              "race0"}

\* the branch an outcome selects: auntil runs its true branch when f
\* reported Finished; aforatmost runs its block when f did not
Chosen(fn, rec) ==
  IF Body(fn)[1].op = "auntil"
  THEN (IF rec = 1 THEN "then" ELSE "else")
  ELSE (IF rec = 1 THEN "else" ELSE "then")

\* C9 (branch mutual exclusivity): a completion of auntil or aforatmost is
\* followed at once by an instruction of the branch its outcome selects;
\* whenever the task executes an instruction after the operator, on the
\* pass of the completion or on a later one, one outcome is recorded and
\* the only branch that has executed is the selected one; and when control
\* is past both branches exactly that branch has executed.
C9_OneBranch ==
  \A k \in Events :
    /\ (trace[k].k = "pass" /\ trace[k].s \in {"auntil", "aforatmost"})
         => RunsNext(k, Chosen(trace[k].f, IF trace[k].x[2] = "ADONE" THEN 1 ELSE 2))
    /\ (trace[k].k = "exec" /\ trace[k].f \in Branching /\ trace[k].i > 1)
         => /\ trace[k].x[1] \in {1, 2}
            /\ trace[k].x[2] \subseteq {Chosen(trace[k].f, trace[k].x[1])}
            /\ BlockAt(k) # "" => BlockAt(k) = Chosen(trace[k].f, trace[k].x[1])
            /\ BlockAt(k) = "" => trace[k].x[2] = {Chosen(trace[k].f, trace[k].x[1])}

\* the else branch of auntil suspended, was resumed on a later pass, and
\* control went on past both branches
C9_Witness ==
  /\ prog = "untilw"
  /\ \E k \in Events :
       /\ trace[k].k = "step" /\ trace[k].f = "untilW" /\ trace[k].i = 70
       /\ \E j \in Events :
            /\ j > k /\ trace[j].k = "exec" /\ trace[j].a = trace[k].a
            /\ trace[j].i = 9 /\ trace[j].x[2] = {"else"}

\* C10 (alternation turn discipline): on a pass that leaves alternate(f, g)
\* waiting with neither child having reported Finished, exactly one child
\* was stepped; it was f if the operator was entered on this pass, and
\* otherwise the child the marker left by the previous pass names; after
\* Continuing the marker names the same child, after Yielded the other.
C10_TurnDiscipline ==
  prog = "alt" =>
    \A k \in Events :
      (/\ trace[k].k = "wait" /\ trace[k].s = "alternate"
       /\ ~ars[ars[trace[k].a].ch[0]].fin
       /\ ~ars[ars[trace[k].a].ch[1]].fin)
        => /\ Cardinality({j \in Events : trace[j].k = "step" /\ trace[j].a # trace[k].a}) = 1
           /\ \E j \in Events :
                /\ trace[j].k = "step"
                /\ trace[j].a = ars[trace[k].a].ch[IF trace[k].x[2] = "f" THEN 0 ELSE 1]
           /\ \E j \in Events :
                /\ trace[j].k = "step" /\ trace[j].a = trace[k].a
                /\ trace[j].i \in {0, 10, 11}
                /\ trace[j].i \in {0, 10} => trace[k].x[2] = "f"
                /\ trace[j].i = 11 => trace[k].x[2] = "g"
           /\ trace[k].x[3] \in {"ACONT", "AYIELD"}
           /\ ars[trace[k].a].pc =
                IF (trace[k].x[2] = "f") <=> (trace[k].x[3] = "ACONT") THEN 10 ELSE 11

\* g was stepped because f yielded on the pass before, and yields in turn
C10_Witness ==
  /\ prog = "alt"
  /\ \E k \in Events :
       /\ trace[k].k = "wait" /\ trace[k].s = "alternate"
       /\ trace[k].x[2] = "g" /\ trace[k].x[3] = "AYIELD"
       /\ \E j \in Events :
            trace[j].k = "step" /\ trace[j].a = trace[k].a /\ trace[j].i = 11
       /\ ars[trace[k].a].pc = 10
       /\ ~ars[ars[trace[k].a].ch[0]].fin
       /\ ~ars[ars[trace[k].a].ch[1]].fin

\* the tasks whose body is alternate( f , g ) followed by one statement
Alternating == {"altW", "altY"}

\* C11 (alternation ends without draining): on a pass in which a child of
\* alternate(f, g) reports Finished, the construct completes on that pass
\* and no child is stepped after that report.
C11_NoDraining ==
  \A k \in Events :
    (/\ trace[k].k = "ret" /\ trace[k].s = "ADONE"
     /\ \E p \in Events : trace[p].f \in Alternating /\ trace[p].k = "step"
                          /\ trace[p].a # trace[k].a)
      => /\ \E p \in Events : p > k /\ trace[p].k = "pass" /\ trace[p].s = "alternate"
         /\ \A j \in Events : j > k => trace[j].k # "step"

\* alternate is waiting although one of its children has reported Finished
AltDrains ==
  \E a \in 1..MaxAR :
    /\ ars[a].live /\ ars[a].fn \in Alternating /\ ars[a].pc \in {10, 11, 12}
    /\ \E i \in 0..1 : ars[a].ch[i] # 0 /\ ars[ars[a].ch[i]].fin

\* C12 (alternation terminates when a side finishes): once a child of
\* alternate has reported Finished, repeated passes bring the construct to
\* its end whatever the other child does.  So a pass made while alternate
\* still waits with a finished child cannot leave the root unfinished and
\* every variable as it found it: the passes after it would repeat it
\* unchanged for ever.
C12_AlternationTerminates ==
  (AltDrains /\ Here.pol = "arepeat") =>
    \A p \in {RunRoot(Launch(Start))} :
      done(p.r.st) \/ p.r.S.ars # ars \/ p.r.S.out # out \/ p.r.S.tr # trace

\* C13 (turn mailbox): the value amyturn reads is the value the sibling
\* passed to its latest ayourturn(v): G's first read gives the 7 F yielded,
\* F's next read the 3 G yielded, and so on with the later values; the
\* value is held in the val field of the common parent's record, which is
\* always the last value passed, and the children's own val fields are
\* never written.
C13_TurnMailbox ==
  /\ \A k \in Events :
       trace[k].k = "read" =>
         /\ trace[k].a \in {1, 2}
         /\ trace[k].x[1] = 3 - trace[k].a
         /\ trace[k].i = trace[k].x[2]
         /\ (trace[k].f = "mailG" /\ trace[k].x[3] = 1) => trace[k].i = 7
         /\ (trace[k].f = "mailF" /\ trace[k].x[3] = 2) => trace[k].i = 3
         /\ (trace[k].f = "mailG" /\ trace[k].x[3] = 3) => trace[k].i \in {5, 6}
         /\ (trace[k].f = "mailF" /\ trace[k].x[3] = 5) => trace[k].i \in {4, 8}
         /\ out[IF trace[k].a = 1 THEN "o1" ELSE "o2"] = trace[k].i
  /\ \A k \in Events :
       trace[k].k = "yield" =>
         (stack[0].live => (stack[0].val = trace[k].i /\ stack[0].who = trace[k].a))
  /\ stack[0].who # 0 => stack[0].val = stack[0].sent
  /\ stack[1].val = 0 /\ stack[2].val = 0

\* F regains the turn and reads the 3 that G passed
C13_Witness ==
  \E k \in Events :
    /\ trace[k].k = "read" /\ trace[k].f = "mailF" /\ trace[k].a = 1
    /\ trace[k].i = 3 /\ trace[k].x[1] = 2
    /\ out["o2"] = 7

\* an adelay without wraparound: its deadline, entry time plus t, is no more
\* than 2^32 - 1, and the clock has not wrapped around since it was entered
DelayNoWrap(k) ==
  /\ trace[k].k = "delay"
  /\ trace[k].x[1] <= UMax - trace[k].x[2]
  /\ TickNow >= trace[k].x[1]

\* C14 (adelay is a fixed deadline): with s the clock when adelay(T) was
\* entered and T the value its argument had then, and s + T not wrapping
\* around, a step returns Continuing at the adelay exactly when the clock
\* is below s + T and proceeds past it exactly when the clock is at least
\* s + T, whatever the spacing of the steps and whatever the argument would
\* evaluate to now; a step that waits runs nothing more in the function.
C14_FixedDeadline ==
  \A k \in Events :
    DelayNoWrap(k) =>
      /\ trace[k].s = "wait" <=> TickNow < Add32(trace[k].x[1], trace[k].x[2])
      /\ trace[k].s = "pass" <=> TickNow >= Add32(trace[k].x[1], trace[k].x[2])
      /\ trace[k].s = "wait" =>
           /\ ElapsedAt(k) < trace[k].x[2]
           /\ k + 1 \in Events /\ trace[k + 1].k = "ret" /\ trace[k + 1].a = trace[k].a
           /\ trace[k + 1].s = "ACONT"
      /\ trace[k].s = "pass" => ElapsedAt(k) >= trace[k].x[2]
      /\ trace[k].f = "delayP" => trace[k].x[2] \in {100, 250}

\* adelay(p ? 100 : 250) entered with p low waits at 100 ms and more although
\* p is high by now, and proceeds at exactly 250 ms
C14_Witness ==
  /\ prog = "delayp" /\ pin["p"]
  /\ \E k \in Events :
       /\ DelayNoWrap(k) /\ trace[k].x[2] = 250
       /\ \/ trace[k].s = "wait" /\ ElapsedAt(k) >= 100
          \/ trace[k].s = "pass" /\ ElapsedAt(k) = 250

\* C15 (ramp fall-through): the body of aramp(T, v, lo, hi) runs only on
\* evaluations of the loop test made while the time elapsed since entry is
\* below T; an evaluation with the elapsed time at or above T, exactly T
\* included, leaves the loop without running the body.
C15_RampFallThrough ==
  \A k \in Events :
    trace[k].k = "ramp" =>
      /\ trace[k].s = "body" => ElapsedAt(k) < trace[k].x[2]
      /\ ElapsedAt(k) >= trace[k].x[2] => (trace[k].s = "exit" /\ ~RunsNext(k, "ramp"))

\* C16 (ramp linearity): on every iteration v is lo + (hi - lo) * elapsed / T
\* in integers, elapsed measured from entry, and lies between lo and hi; for
\* aramp(1000, v, 0, 255) v is within 1 of 0, 64, 128, 191, 255 at elapsed
\* 0, 250, 500, 750, 999.
C16_RampLinear ==
  \A k \in Events :
    (trace[k].k = "ramp" /\ trace[k].s = "body") =>
      /\ trace[k].f = "fade" =>
           /\ trace[k].x[3] = (255 * ElapsedAt(k)) \div 1000
           /\ trace[k].x[3] \in 0..255
           /\ ElapsedAt(k) = 0 => trace[k].x[3] \in {0, 1}
           /\ ElapsedAt(k) = 250 => trace[k].x[3] \in 63..65
           /\ ElapsedAt(k) = 500 => trace[k].x[3] \in 127..129
           /\ ElapsedAt(k) = 750 => trace[k].x[3] \in 190..192
           /\ ElapsedAt(k) = 999 => trace[k].x[3] \in 254..256
           /\ out["o1"] = trace[k].x[3]
      /\ trace[k].f = "fadeD" =>
           /\ trace[k].x[3] = 255 - ((255 * ElapsedAt(k)) \div 250)
           /\ trace[k].x[3] \in 0..255

\* C17 (aonce runs its function once): a call of aonce with an empty root
\* slot creates the root instance, a record that was not live, and stores
\* it in the slot; a call with a root leaves that same live record in the
\* slot and creates no other instance of the function; and once the root
\* has reported Finished a call changes nothing: the root reports Finished
\* again, and the outputs, the slot and every activation record are what
\* they were.
C17_RunOnce ==
  [][AOnce =>
       /\ root[site] = 0 =>
            /\ root'[site] # 0 /\ ~ars[root'[site]].live /\ ars'[root'[site]].live
            /\ trace'[2].k = "new" /\ trace'[2].a = root'[site]
       /\ root[site] # 0 =>
            /\ root'[site] = root[site] /\ ars'[root[site]].live
            /\ \A k \in DOMAIN trace' : ~(trace'[k].k = "new" /\ trace'[k].f = Here.fn)
       /\ (root[site] # 0 /\ ars[root[site]].fin) =>
            /\ out' = out /\ root' = root
            /\ \A a \in 1..MaxAR : [ars'[a] EXCEPT !.ns = 0] = [ars[a] EXCEPT !.ns = 0]
            /\ Len(trace') = 3 /\ trace'[3].k = "ret" /\ trace'[3].s = "ADONE"
            /\ trace'[3].a = root[site]
       /\ \A s \in Sites : s # site => root'[s] = root[s]
    ]_vars

\* aonce is called again after its root has reported Finished
C17_Witness ==
  /\ Len(trace) = 3 /\ trace[1].k = "tick" /\ trace[1].s = "aonce"
  /\ trace[2].k = "step" /\ trace[2].s = "ADONE"
  /\ root[trace[1].a] # 0 /\ ars[root[trace[1].a]].fin

\* the records of the tree rooted at a in heap h (0 is the null pointer)
RECURSIVE Tree(_, _, _)
Tree(h, a, d) ==
  IF a = 0 \/ d = 0 THEN {}
  ELSE {a} \cup UNION {Tree(h, h[a].ch[i], d - 1) : i \in 0..2}

\* the records of the trees of the call sites other than the current one
OtherTrees == UNION {Tree(ars, root[s], MaxAR) : s \in Sites \ {site}}

\* C18 (arepeat restarts from scratch): the root slot is empty at the end
\* of a call of arepeat exactly when the root reported Finished in that
\* call, and then every record of its tree has been destroyed: the live
\* records are those of the other call sites' trees.  A call that finds the
\* slot empty creates a root that was not live before and steps it from
\* suspension point 0, with no children and no status of an earlier step.
C18_RepeatRestarts ==
  [][ARepeat =>
       /\ root'[site] = 0 <=>
            \E k \in DOMAIN trace' :
              /\ trace'[k].k = "ret" /\ trace'[k].s = "ADONE"
              /\ trace'[k].a = (IF root[site] = 0 THEN trace'[2].a ELSE root[site])
       /\ root'[site] = 0 => LiveOf(ars') = OtherTrees
       /\ root'[site] # 0 =>
            /\ root'[site] = (IF root[site] = 0 THEN trace'[2].a ELSE root[site])
            /\ ars'[root'[site]].live /\ ~ars'[root'[site]].fin
       /\ root[site] = 0 =>
            /\ trace'[2].k = "new" /\ trace'[2].f = Here.fn
            /\ trace'[2].a \notin LiveOf(ars)
            /\ trace'[3].k = "step" /\ trace'[3].a = trace'[2].a
            /\ trace'[3].i = 0 /\ trace'[3].s = "ANONE" /\ trace'[3].x[1] = NoChildren
    ]_vars

\* the root reports Finished while one of its children is still live: the
\* call destroys both and leaves the slot empty
C18_Witness ==
  /\ trace # << >> /\ trace[1].k = "tick" /\ trace[1].s = "arepeat"
  /\ root[trace[1].a] = 0
  /\ \E k \in Events :
       /\ trace[k].k = "ret" /\ trace[k].s = "ADONE" /\ trace[k].x[1] # NoChildren
       /\ k + 2 <= Len(trace)
       /\ trace[k + 1].k = "del" /\ trace[k + 1].a \in {trace[k].x[1][i] : i \in 0..2}
       /\ trace[Len(trace)].k = "del" /\ trace[Len(trace)].a = trace[k].a

\* C19 (run-every): a call of aevery( interval, f ) empties the root slot
\* only if the root reported Finished in that call, and a call that creates
\* a root after an earlier one does so at least interval clock units after
\* the earlier root was created: two consecutive restarts are never less
\* than interval apart.
C19_RunEvery ==
  [][AEvery =>
       /\ root'[site] = 0 =>
            \E k \in DOMAIN trace' :
              /\ trace'[k].k = "ret" /\ trace'[k].s = "ADONE"
              /\ trace'[k].a = (IF root[site] = 0 THEN trace'[2].a ELSE root[site])
       /\ (root[site] = 0 /\ armed[site]) => Sub32(now, born[site]) >= Here.T
    ]_vars

\* C20 (independent top-level activities): a call of arepeat, aevery or
\* aonce at one call site, whether it creates, steps or destroys its tree,
\* leaves every other call site's root slot and schedule point unchanged,
\* and every record of the other sites' trees exactly as it was: its
\* function, resumption marker, deadline, ramp start and children.
C20_IndependentSites ==
  [][(ARepeat \/ AEvery \/ AOnce) =>
       \A s \in Sites \ {site} :
         /\ root'[s] = root[s]
         /\ anexttime'[s] = anexttime[s] /\ armed'[s] = armed[s]
         /\ \A a \in Tree(ars, root[s], MaxAR) : ars'[a] = ars[a]
    ]_vars

\* the first of two arepeat call sites has just destroyed its tree, a root
\* with a child, while the second has a tree with a child
C20_Witness ==
  /\ prog = "pair" /\ trace # << >> /\ trace[1].a = 1
  /\ root[1] = 0 /\ root[2] # 0 /\ ars[root[2]].ch[0] # 0 /\ ars[ars[root[2]].ch[0]].live
  /\ \E k \in Events : trace[k].k = "del" /\ trace[k].f = "workQ"

\* the operators that run children without giving turns
Composing == {"andthen", "aforatmost", "aboth", "athree", "auntil"}

\* C21 (Yielded counts as not done outside alternation): a child status of
\* Yielded is handled by andthen, aforatmost, aboth, athree and auntil as
\* Continuing is.  andthen, aboth and athree wait when a child yields;
\* aforatmost waits when its child yields before the deadline, and if it
\* completes on a yield it is by the deadline and the timeout block runs;
\* auntil waits when one child yields and the other is not done, and if it
\* completes on a yield of the first child the second is done and the block
\* of the first is not run.  A task whose last step yielded is resumed at
\* the case label of its ayourturn and goes on with the statement after it.
C21_YieldIsNotDone ==
  /\ \A k \in Events :
       (trace[k].k \in {"wait", "pass"} /\ trace[k].s \in Composing) =>
         /\ (trace[k].s \in {"andthen"} /\ yield(trace[k].x[2])) => trace[k].k = "wait"
         /\ (trace[k].s \in {"aboth", "athree"}
               /\ \E j \in 2..(IF trace[k].s = "aboth" THEN 3 ELSE 4) :
                    yield(trace[k].x[j]))
              => trace[k].k = "wait"
         /\ (trace[k].s = "aforatmost" /\ yield(trace[k].x[2])) =>
              /\ TickNow < Add32(trace[k].x[1], Body(trace[k].f)[trace[k].i].t)
                   => trace[k].k = "wait"
              /\ trace[k].k = "pass" => RunsNext(k, "then")
         /\ (trace[k].s = "auntil" /\ (yield(trace[k].x[2]) \/ yield(trace[k].x[3]))) =>
              /\ (notdone(trace[k].x[2]) /\ notdone(trace[k].x[3])) => trace[k].k = "wait"
              /\ (trace[k].k = "pass" /\ yield(trace[k].x[2]))
                   => (done(trace[k].x[3]) /\ ~RunsNext(k, "then"))
  /\ \A k \in Events :
       (trace[k].k = "step" /\ trace[k].s = "AYIELD") =>
         /\ trace[k].i % 10 = 0
         /\ Body(trace[k].f)[trace[k].i \div 10].op = "ayourturn"
         /\ trace[k + 1].k = "exec" /\ trace[k + 1].a = trace[k].a
         /\ trace[k + 1].i = trace[k].i \div 10 /\ trace[k + 1].s = "c0"
         /\ \/ trace[k + 2].k = "ret" /\ trace[k + 2].a = trace[k].a
            \/ /\ trace[k + 2].k = "exec" /\ trace[k + 2].a = trace[k].a
               /\ trace[k + 2].i = (trace[k].i \div 10) + 1 /\ trace[k + 2].s = "entry"

\* athree keeps waiting on a pass on which a child that yielded before is
\* resumed and another child yields
C21_Witness ==
  \E j, k \in Events :
    /\ trace[k].k = "wait" /\ trace[k].s = "athree"
    /\ \E n \in 2..4 : yield(trace[k].x[n])
    /\ j < k /\ trace[j].k = "step" /\ trace[j].s = "AYIELD"

\* C22 (explicit finish): the step in which a task executes afinish returns
\* Finished to its caller, and a later step of that task executes no
\* statement: a step that starts at the final marker returns at once.
C22_ExplicitFinish ==
  \A k \in Events :
    /\ (trace[k].k = "exec" /\ Body(trace[k].f)[trace[k].i].op = "afinish") =>
         /\ trace[k + 1].k = "ret" /\ trace[k + 1].a = trace[k].a
         /\ trace[k + 1].s = "ADONE"
    /\ (trace[k].k = "step" /\ trace[k].i = ADEL_FINALLY) =>
         /\ trace[k + 1].k = "ret" /\ trace[k + 1].a = trace[k].a

\* the driver slots and the child slots of live records that hold record a
RootOwners(a) == {s \in Sites : root[s] = a}
SlotOwners(a) == {bi \in LiveOf(ars) \X (0..2) : ars[bi[1]].ch[bi[2]] = a}

\* C23 (tree ownership): between top-level calls every live record is held
\* by exactly one owner, a driver slot or one child slot of one live record,
\* and every slot that is not empty holds a live record: so no record is
\* owned twice, none outlives its owner, and a destroyed record leaves no
\* record of its subtree behind.
C23_TreeOwnership ==
  /\ \A a \in LiveOf(ars) : Cardinality(RootOwners(a)) + Cardinality(SlotOwners(a)) = 1
  /\ \A s \in Sites : root[s] # 0 => ars[root[s]].live
  /\ \A b \in LiveOf(ars) : \A i \in 0..2 : ars[b].ch[i] # 0 => ars[ars[b].ch[i]].live

C23_Witness ==
  /\ prog = "pair" /\ root[1] # 0 /\ root[2] # 0
  /\ ars[root[1]].ch[0] # 0 /\ ars[root[2]].ch[0] # 0
  /\ Cardinality(LiveOf(ars)) = 4

\* the child slots an operator forks into, and the routine it puts in each
ForkSlots(ins) ==
  CASE ins.op \in {"andthen", "aforatmost"} -> {0}
    [] ins.op \in {"aboth", "auntil", "alternate"} -> {0, 1}
    [] ins.op = "athree" -> {0, 1, 2}
    [] OTHER -> {}
ForkFn(ins, i) == IF i = 0 THEN ins.f ELSE IF i = 1 THEN ins.g ELSE ins.h

\* event e of trace t is the entry of an operator whose slot i holds a record
Reforks(t, e, i) ==
  /\ t[e].k = "exec" /\ t[e].s = "entry"
  /\ i \in ForkSlots(Body(t[e].f)[t[e].i])
  /\ t[e].x[3][i] # 0

\* C24 (re-fork releases the previous occupant): when an operator is entered
\* while one of its child slots holds a record, the new record is allocated
\* at another address, then the occupant is destroyed, its subtree first and
\* nothing else in between, and no routine steps meanwhile; after that the
\* occupant is not live while the new record is, every record of the
\* occupant's tree as it stood before the call has been destroyed, and the
\* occupant's address is stepped again only after a new record was created
\* at it.
C24_ReforkReleases ==
  [][ARepeat =>
       \A e \in DOMAIN trace' : \A i \in 0..2 :
         Reforks(trace', e, i) =>
           \E n \in DOMAIN trace' : \E d \in DOMAIN trace' :
             /\ e < n /\ n < d
             /\ \A j \in (e + 1)..d : trace'[j].k \in {"new", "del"}
             /\ \A j \in (n + 1)..d : trace'[j].k = "del"
             /\ trace'[n].k = "new"
             /\ trace'[n].f = ForkFn(Body(trace'[e].f)[trace'[e].i], i)
             /\ trace'[n].a # trace'[e].x[3][i]
             /\ trace'[d].a = trace'[e].x[3][i]
             /\ trace'[d].a \notin trace'[d].lv /\ trace'[n].a \in trace'[d].lv
             /\ (/\ ars[trace'[e].a].live /\ ars[trace'[e].a].ch[i] = trace'[d].a
                 /\ \A j \in 2..(e - 1) :
                      trace'[j].a \notin Tree(ars, trace'[d].a, MaxAR))
                  => Tree(ars, trace'[d].a, MaxAR) = {trace'[j].a : j \in (n + 1)..d}
             /\ \A l \in DOMAIN trace' :
                  (l > d /\ trace'[l].k \in {"step", "exec", "ret"}
                     /\ trace'[l].a = trace'[d].a)
                    => \E j \in (d + 1)..(l - 1) :
                         trace'[j].k = "new" /\ trace'[j].a = trace'[d].a
             /\ ars'[trace'[d].a].live
                  => \E j \in DOMAIN trace' :
                       j > d /\ trace'[j].k = "new" /\ trace'[j].a = trace'[d].a]_vars

\* the loop of altL re-enters alternate while nestQ and its child workQ are
\* live in slot 1: both are destroyed and a new nestQ is installed
C24_Witness ==
  /\ prog = "realt"
  /\ \E e \in Events : \E d \in Events :
       /\ Reforks(trace, e, 1) /\ d > e + 2
       /\ trace[d].k = "del" /\ trace[d].f = "nestQ" /\ trace[d].a = trace[e].x[3][1]
       /\ trace[d - 1].k = "del" /\ trace[d - 1].f = "workQ"
       /\ trace[d - 2].k = "new" /\ trace[d - 2].f = "nestQ"
       /\ ars[root[1]].ch[1] = trace[d - 2].a

\* C25 (capacity overflow is detected): every index at which the array of
\* activation records is read or written is at most MaxIndex, the last
\* index of the array.
C25_CapacityChecked ==
  \A k \in Events : trace[k].k \in {"oob", "yield", "read"} => trace[k].a <= MaxIndex

\* record a is not created, destroyed or stepped before event k of pass t
FirstTouch(t, a, k) ==
  \A j \in 2..(k - 1) : ~(t[j].a = a /\ t[j].k \in {"new", "del", "step"})

\* C26 (per-instance persistent state): a record that a pass does not step
\* is after the pass what it was before, marker, deadline, ramp start and
\* children, whatever other instances of its routine did; the first step of
\* a record in a pass starts at the marker and with the children its
\* previous step left, and a delay it resumes is tested against the entry
\* time and length stored then; a step that enters no construct leaves the
\* deadline and the ramp start as they were.
C26_PerInstanceState ==
  [][(ARepeat \/ AEvery \/ AOnce) =>
       \A a \in LiveOf(ars) :
         /\ FirstTouch(trace', a, Len(trace') + 1) => ars'[a] = ars[a]
         /\ \A k \in DOMAIN trace' :
              (trace'[k].k = "step" /\ trace'[k].a = a /\ FirstTouch(trace', a, k)) =>
                /\ trace'[k].i = ars[a].pc /\ trace'[k].x[1] = ars[a].ch
                /\ (trace'[k + 1].k = "exec" /\ trace'[k + 1].s = "c0"
                      /\ trace'[k + 2].k = "delay")
                     => trace'[k + 2].x = <<ars[a].ent, ars[a].dur>>
         /\ (/\ ars'[a].live
             /\ \A j \in DOMAIN trace' :
                  ~(trace'[j].a = a
                      /\ \/ trace'[j].k \in {"new", "del"}
                         \/ trace'[j].k = "exec" /\ trace'[j].s = "entry"))
              => ars'[a].wait = ars[a].wait /\ ars'[a].ramp = ars[a].ramp]_vars

\* two live instances of stepsB under one alternate: the first has just
\* taken its second step and is after its second yield, the second was not
\* stepped and stays after its first
C26_Witness ==
  /\ prog = "twin" /\ root[1] # 0
  /\ ars[root[1]].ch[0] # 0 /\ ars[root[1]].ch[1] # 0
  /\ ars[ars[root[1]].ch[0]].fn = "stepsB" /\ ars[ars[root[1]].ch[1]].fn = "stepsB"
  /\ ars[ars[root[1]].ch[0]].pc = 40 /\ ars[ars[root[1]].ch[1]].pc = 20
  /\ FirstTouch(trace, ars[root[1]].ch[1], Len(trace) + 1)
  /\ \E k \in Events : trace[k].k = "step" /\ trace[k].a = ars[root[1]].ch[0]

\* the constructs at which a step can end before the body does
Suspends ==
  {"adelay", "await", "ayourturn", "afinish", "andthen", "aforatmost", "aboth", "athree",
   "auntil", "alternate"}

\* the latest instruction the record of event k executed before it
LastExec(k) ==
  CHOOSE e \in 1..(k - 1) :
    /\ trace[e].k = "exec" /\ trace[e].a = trace[k].a
    /\ \A j \in (e + 1)..(k - 1) : ~(trace[j].k = "exec" /\ trace[j].a = trace[k].a)

\* C27 (exact resumption): a step of an unfinished task starts at the first
\* statement if it is the task's first, and otherwise at the case label the
\* marker names, which is the label of a suspending construct: the first
\* thing executed is that construct, resumed and not entered again.  A step
\* that returns Continuing or Yielded ends at a suspending construct, and the
\* marker it leaves names that construct (or the end, after afinish).  After
\* any other statement the same step goes on with the next statement or
\* reaches the end of the body.
C27_ExactResumption ==
  \A k \in Events :
    /\ (trace[k].k = "step" /\ trace[k].i # ADEL_FINALLY) =>
         /\ trace[k + 1].k = "exec" /\ trace[k + 1].a = trace[k].a
         /\ trace[k].i = 0 => (trace[k + 1].i = 1 /\ trace[k + 1].s = "entry")
         /\ trace[k].i # 0 =>
              /\ trace[k + 1].i = trace[k].i \div 10
              /\ trace[k + 1].s = CaseOf(trace[k].i)
              /\ Body(trace[k].f)[trace[k].i \div 10].op \in Suspends \ {"afinish"}
    /\ (trace[k].k = "ret" /\ notdone(trace[k].s)) =>
         /\ Body(trace[k].f)[trace[LastExec(k)].i].op \in Suspends
         /\ (/\ ars[trace[k].a].live
             /\ \A j \in (k + 1)..Len(trace) :
                  ~(trace[j].a = trace[k].a /\ trace[j].k \in {"new", "del", "step"}))
              => IF Body(trace[k].f)[trace[LastExec(k)].i].op = "afinish"
                 THEN ars[trace[k].a].pc = ADEL_FINALLY
                 ELSE ars[trace[k].a].pc \div 10 = trace[LastExec(k)].i
    /\ (trace[k].k = "exec" /\ Body(trace[k].f)[trace[k].i].op \notin Suspends) =>
         /\ trace[k + 1].a = trace[k].a
         /\ \/ trace[k + 1].k \in {"exec", "ramp"}
            \/ trace[k + 1].k = "ret" /\ trace[k + 1].s = "ADONE"

\* a step of stepsB that starts after the first yield, executes the
\* statement between the two yields and ends at the second
C27_Witness ==
  \E k \in Events :
    /\ trace[k].k = "step" /\ trace[k].f = "stepsB" /\ trace[k].i = 20
    /\ k + 4 <= Len(trace)
    /\ trace[k + 1].k = "exec" /\ trace[k + 1].i = 2 /\ trace[k + 1].s = "c0"
    /\ trace[k + 2].k = "exec" /\ trace[k + 2].i = 3
    /\ trace[k + 3].k = "exec" /\ trace[k + 3].i = 4 /\ trace[k + 3].s = "entry"
    /\ trace[k + 4].k = "ret" /\ trace[k + 4].s = "AYIELD"
    /\ ars[trace[k].a].live /\ ars[trace[k].a].pc = 40

\* the operators that step all their children on each of their steps
Polling == {"aboth", "athree", "auntil"}

\* event e executes a polling operator at its case label
Polls(e) ==
  /\ trace[e].k = "exec" /\ trace[e].s \in {"entry", "c0"}
  /\ Body(trace[e].f)[trace[e].i].op \in Polling

\* the creation of the child for slot i by the operator entered at event e
SlotNew(e, i) ==
  CHOOSE j \in (e + 1)..Len(trace) :
    /\ trace[j].k = "new"
    /\ \A m \in (e + 1)..j : trace[m].k \in {"new", "del"}
    /\ Cardinality({m \in (e + 1)..(j - 1) : trace[m].k = "new"}) = i

\* the record in slot i when the operator of event e steps its children
ChildAt(e, i) == IF trace[e].s = "entry" THEN trace[SlotNew(e, i)].a ELSE trace[e].x[3][i]

\* the event at which the operator of event e waits or completes
Verdict(e) ==
  CHOOSE w \in (e + 1)..Len(trace) :
    /\ trace[w].k \in {"wait", "pass"} /\ trace[w].a = trace[e].a /\ trace[w].i = trace[e].i
    /\ \A j \in (e + 1)..(w - 1) :
         ~(trace[j].k \in {"wait", "pass"} /\ trace[j].a = trace[e].a
             /\ trace[j].i = trace[e].i)

\* the children's steps and returns between event e and its verdict
StepsOf(e, i) ==
  {j \in (e + 1)..(Verdict(e) - 1) : trace[j].k = "step" /\ trace[j].a = ChildAt(e, i)}
RetsOf(e, i) ==
  {j \in (e + 1)..(Verdict(e) - 1) : trace[j].k = "ret" /\ trace[j].a = ChildAt(e, i)}

\* C28 (deterministic polling order): each time aboth, athree or auntil is
\* executed at its case label, on the step that enters it and on every later
\* one, each of its children is stepped exactly once and in operand order:
\* the step of a child has returned before the step of the next begins.
C28_PollingOrder ==
  \A e \in Events :
    Polls(e) =>
      /\ \A i \in ForkSlots(Body(trace[e].f)[trace[e].i]) :
           Cardinality(StepsOf(e, i)) = 1 /\ Cardinality(RetsOf(e, i)) = 1
      /\ \A i \in ForkSlots(Body(trace[e].f)[trace[e].i]) \ {0} :
           \A r \in RetsOf(e, i - 1) : \A s \in StepsOf(e, i) : r < s

\* athree resumed with its three children live: they are stepped first,
\* second, third
C28_Witness ==
  \E e \in Events :
    /\ Polls(e) /\ trace[e].s = "c0" /\ Body(trace[e].f)[trace[e].i].op = "athree"
    /\ trace[e + 1].k = "step" /\ trace[e + 1].a = trace[e].x[3][0]
    /\ \E s \in StepsOf(e, 1) : \E t \in StepsOf(e, 2) : e + 1 < s /\ s < t
    /\ trace[Verdict(e)].k = "wait"

\* event k of pass t executes an await
Awaits(t, k) == t[k].k = "exec" /\ Body(t[k].f)[t[k].i].op = "await"

\* the event that starts the step event k of pass t belongs to
StepOf(t, k) ==
  CHOOSE s \in 1..(k - 1) :
    /\ t[s].k = "step" /\ t[s].a = t[k].a
    /\ \A j \in (s + 1)..(k - 1) : ~(t[j].k = "step" /\ t[j].a = t[k].a)

\* C29 (await polls once per step): when a step executes await(c), entering
\* it or resumed at it, and c is false, the step returns Continuing at once,
\* and it has executed that await once; when c is true the same step goes on
\* with the statement after the await.
C29_AwaitOncePerStep ==
  [][(ARepeat \/ AEvery \/ AOnce) =>
       \A k \in DOMAIN trace' :
         Awaits(trace', k) =>
           /\ ~pin[Body(trace'[k].f)[trace'[k].i].v] =>
                /\ trace'[k + 1].k = "ret" /\ trace'[k + 1].a = trace'[k].a
                /\ trace'[k + 1].s = "ACONT"
                /\ \A j \in (StepOf(trace', k) + 1)..(k - 1) :
                     ~(Awaits(trace', j) /\ trace'[j].a = trace'[k].a)
           /\ pin[Body(trace'[k].f)[trace'[k].i].v] =>
                /\ trace'[k + 1].k = "exec" /\ trace'[k + 1].a = trace'[k].a
                /\ trace'[k + 1].i = trace'[k].i + 1 /\ trace'[k + 1].s = "entry"]_vars

\* workQ reaches its await for the first time with the pin high and goes on
\* to the next statement in its first step
C29_Witness ==
  \E k \in Events :
    /\ Awaits(trace, k) /\ trace[k].f = "workQ" /\ trace[k].s = "entry"
    /\ trace[k - 2].k = "step" /\ trace[k - 2].a = trace[k].a /\ trace[k - 2].i = 0
    /\ trace[k + 1].k = "exec" /\ trace[k + 1].a = trace[k].a /\ trace[k + 1].i = 3
    /\ out["o2"] = 2

\* C30 (producer/consumer yield): on a pass in which the producer of
\* aforevery reports Yielded the block runs next and the construct is not
\* complete: after the pass the consumer is still at the construct; on a pass
\* in which the producer reports Finished or Continuing the block does not
\* run.
C30_ForEveryYield ==
  \A k \in Events :
    trace[k].k = "poll" =>
      /\ trace[k].s = "AYIELD" =>
           /\ k < Len(trace) /\ trace[k + 1].k = "block"
           /\ Cardinality({j \in Events : trace[j].k = "block"}) = 1
           /\ stack[trace[k].a].live /\ stack[trace[k].a].pc = 10 * trace[k].i
      /\ trace[k].s # "AYIELD" => \A j \in Events : trace[j].k # "block"

\* C31 (children are freed when retired): when andthen, aforatmost, aboth,
\* athree, auntil or alternate completes, the slots it forked into are
\* empty when the task goes on: at the next statement it executes, or at its
\* return if the operator was its last statement.
C31_RetiredChildrenFreed ==
  \A k \in Events :
    (trace[k].k = "pass" /\ trace[k].s \in Composing \cup {"alternate"}) =>
      /\ k < Len(trace) /\ trace[k + 1].a = trace[k].a
      /\ trace[k + 1].k \in {"exec", "ret"}
      /\ \A i \in ForkSlots(Body(trace[k].f)[trace[k].i]) :
           trace[k + 1].x[IF trace[k + 1].k = "exec" THEN 3 ELSE 1][i] = 0

\* the steps taken in the pass
StepEvents == {k \in Events : trace[k].k = "step"}

\* C32 (one step per tick): in one top-level call no activation record is
\* stepped twice: between two steps at one address the record there was
\* created anew.  The call steps the root once, first of all, and is over
\* when that step has returned: only the reset of a finished run follows.
C32_OneStepPerTick ==
  (trace # << >> /\ trace[1].s \in {"arepeat", "aevery", "aonce"}) =>
    /\ \A j \in StepEvents : \A k \in StepEvents :
         (j < k /\ trace[j].a = trace[k].a) =>
           \E n \in (j + 1)..(k - 1) : trace[n].k = "new" /\ trace[n].a = trace[k].a
    /\ \E s \in {2, 3} :
         /\ trace[s].k = "step"
         /\ \A j \in 2..(s - 1) : trace[j].k = "new" /\ trace[j].a = trace[s].a
         /\ \E r \in Events :
              /\ r > s /\ trace[r].k = "ret" /\ trace[r].a = trace[s].a
              /\ \A j \in (r + 1)..Len(trace) : trace[j].k = "del"

\* a pass over a tree of four records: each is stepped once
C32_Witness ==
  /\ prog = "untilw" /\ Cardinality(StepEvents) = 4
  /\ Cardinality({trace[k].a : k \in StepEvents}) = 4
  /\ \A k \in Events : trace[k].k \notin {"new", "del"}

\* C33 (delay across clock wraparound): with the elapsed time taken modulo
\* 2^32, a step at adelay(t) waits exactly when less than t has elapsed
\* since the adelay was entered and proceeds exactly when t or more has,
\* wherever the entry time and the deadline lie relative to the wrap.
C33_DelayAcrossWrap ==
  \A k \in Events :
    trace[k].k = "delay" =>
      /\ trace[k].s = "wait" <=> ElapsedAt(k) < trace[k].x[2]
      /\ trace[k].s = "pass" <=> ElapsedAt(k) >= trace[k].x[2]

\* C34 (ramp end time is fixed at entry): with s the clock at the entry of
\* aramp(T, ...) and T0 the value T had then, and s + T0 not wrapping
\* around, the loop test lets the body run only while at most T0 has elapsed
\* and leaves the loop only when T0 or more has, whatever the body assigned
\* since.  In fadeT the variable T depends on is 0 at entry, so T0 is 1000.
C34_RampEndFixed ==
  \A k \in Events :
    (/\ trace[k].k = "ramp" /\ trace[k].f = "fadeT"
     /\ trace[k].x[1] <= UMax - Body(trace[k].f)[trace[k].i].t
     /\ TickNow >= trace[k].x[1])
      => /\ trace[k].s = "body" => ElapsedAt(k) <= Body(trace[k].f)[trace[k].i].t
         /\ trace[k].s = "exit" => ElapsedAt(k) >= Body(trace[k].f)[trace[k].i].t

-----------------------------------------------------------------------------
\* C35: in atogether(f, g) of the revision that keeps the marker in the slot
\* array, when a pass has seen child 1 report Finished while child 2 reported
\* Continuing, the next pass sees child 1 report Finished again and executes
\* no statement of the body of child 1.
C35_FinishedStaysFinished ==
  [][(/\ ARepeat3
      /\ prog = "tog"
      /\ \E k \in Events : trace[k].k = "cret" /\ trace[k].a = 1 /\ trace[k].s = "ADONE"
      /\ \E k \in Events : trace[k].k = "cret" /\ trace[k].a = 2 /\ trace[k].s = "ACONT")
     => /\ \E k \in DOMAIN trace' :
             trace'[k].k = "cret" /\ trace'[k].a = 1 /\ trace'[k].s = "ADONE"
        /\ \A k \in DOMAIN trace' : ~(trace'[k].k = "stmt" /\ trace'[k].a = 1)]_vars

\* the slots below slot c in the indexed tree
RECURSIVE Below(_)
Below(c) ==
  IF Child(c, 1) > MaxIndex THEN {}
  ELSE {d \in {Child(c, 1), Child(c, 2)} : d <= MaxIndex}
         \cup UNION {Below(d) : d \in {e \in {Child(c, 1), Child(c, 2)} : e <= MaxIndex}}

\* C36: in the revision with the slot array, a slot is empty before its task
\* first runs and after ainit released it (operator entry, arepeat restarting
\* the root); whenever a slot is empty, no slot below it holds a record.
C36_ReleaseFreesDescendants ==
  prog = "mail" =>
    \A c \in 0..MaxIndex : ~stack[c].live => \A d \in Below(c) : ~stack[d].live

\* C37 (bounded-race tie-break): on every pass on which aforatmost(T, f) is
\* entered or resumed at its polling point, f is stepped, and has returned,
\* before the operator decides; and when f returned Finished the operator
\* completes with the finished-first outcome and skips its block, whatever
\* the clock is, in particular at and after the deadline and when T is 0.
C37_RaceTieBreak ==
  \A k \in Events :
    (trace[k].s = "aforatmost" /\ trace[k].k \in {"wait", "pass"}) =>
      \E e \in 1..(k - 1), r \in 1..(k - 1) :
        /\ e < r
        /\ trace[e].k = "exec" /\ trace[e].a = trace[k].a /\ trace[e].i = trace[k].i
        /\ trace[e].s \in {"entry", "c0"}
        /\ \A j \in (e + 1)..(k - 1) : ~(trace[j].k = "exec" /\ trace[j].a = trace[k].a)
        /\ trace[r].k = "ret"
        /\ \A j \in (r + 1)..(k - 1) : trace[j].k = "del"
        /\ Cardinality({s \in (e + 1)..(r - 1) :
                          trace[s].k = "step" /\ trace[s].a = trace[r].a}) = 1
        /\ trace[r].s = "ADONE" =>
             /\ trace[k].k = "pass"
             /\ RunsNext(k, "else")
             /\ trace[k + 1].x[1] = 1

\* aforatmost(0, f) whose f reports Finished on the pass of the entry: the
\* deadline is reached on that pass, f was stepped, and finished-first wins
C37_Witness ==
  /\ prog = "race0"
  /\ \E k \in Events :
       /\ trace[k].k = "pass" /\ trace[k].s = "aforatmost"
       /\ Body(trace[k].f)[trace[k].i].t = 0
       /\ trace[k].x[1] = TickNow
       /\ trace[k].x[2] = "ADONE"
       /\ trace[k - 1].k = "del" /\ trace[k - 2].k = "ret" /\ trace[k - 2].s = "ADONE"
       /\ RunsNext(k, "else")

\* C38 (join-any tie-break): when auntil(f, g) completes on a pass on which
\* both children returned Finished, the outcome recorded is that of the first
\* operand, the instruction that follows is of the true branch, and the task
\* executes no instruction of the else branch on that pass.
C38_UntilTieBreak ==
  \A k \in Events :
    (trace[k].k = "pass" /\ trace[k].s = "auntil"
       /\ trace[k].x[2] = "ADONE" /\ trace[k].x[3] = "ADONE") =>
      /\ RunsNext(k, "then")
      /\ trace[k + 1].x[1] = 1
      /\ \A j \in Events :
           (j > k /\ trace[j].k = "exec" /\ trace[j].a = trace[k].a) =>
             (BlockAt(j) # "else" /\ "else" \notin trace[j].x[2])

\* timeout300 and timeout500 return Finished on the same pass: the second
\* and the first return of that pass, each followed by its destruction
C38_Witness ==
  /\ prog = "until"
  /\ \E k \in Events :
       /\ trace[k].k = "pass" /\ trace[k].s = "auntil"
       /\ trace[k].x[2] = "ADONE" /\ trace[k].x[3] = "ADONE"
       /\ Cardinality({r \in 1..k : trace[r].k = "ret" /\ trace[r].s = "ADONE"}) = 2
       /\ RunsNext(k, "then")
       /\ out["o3"] = 1

\* event e resumes an operator at the case label where it steps its children
ResumesPoll(e) ==
  /\ trace[e].k = "exec"
  /\ \/ trace[e].s = "c0" /\ Body(trace[e].f)[trace[e].i].op \in Composing \cup {"alternate"}
     \/ trace[e].s = "c1" /\ Body(trace[e].f)[trace[e].i].op = "alternate"

\* C39 (no step of an empty slot): runchild is never called on a slot that
\* holds no record; every record that starts a step is alive; and an operator
\* that is resumed at its polling point has a record in each of its slots.
C39_NoEmptySlotStepped ==
  /\ \A k \in Events : trace[k].k # "null"
  /\ \A k \in Events : trace[k].k = "step" => trace[k].a \in trace[k].lv
  /\ \A e \in Events :
       ResumesPoll(e) =>
         \A i \in ForkSlots(Body(trace[e].f)[trace[e].i]) :
           /\ trace[e].x[3][i] # 0
           /\ trace[e].x[3][i] \in trace[e].lv

\* aboth is resumed at its polling point and steps a child that reported
\* Finished on an earlier pass: the record is still in its slot
C39_Witness ==
  /\ prog = "bothw"
  /\ \E e \in Events :
       /\ ResumesPoll(e) /\ Body(trace[e].f)[trace[e].i].op = "aboth"
       /\ \E k \in Events :
            /\ k > e /\ trace[k].k = "step"
            /\ trace[k].a \in {trace[e].x[3][0], trace[e].x[3][1]}
            /\ trace[k].i = ADEL_FINALLY

\* C40 (a yield is visible one level up only): a step returns Yielded only
\* when the last instruction the task itself executed in that step is an
\* ayourturn, entered in that step; an operator that waits, whatever its
\* children reported, returns Continuing; and when alternate passes the turn
\* the Yielded it saw is the return of the record in its own slot, whose own
\* body executed ayourturn.
C40_YieldOneLevel ==
  \A k \in Events :
    /\ (trace[k].k = "ret" /\ trace[k].s = "AYIELD") =>
         /\ \E e \in 1..(k - 1) : trace[e].k = "exec" /\ trace[e].a = trace[k].a
         /\ Body(trace[k].f)[trace[LastExec(k)].i].op = "ayourturn"
         /\ trace[LastExec(k)].s = "entry"
         /\ \E s \in 1..(LastExec(k) - 1) :
              /\ trace[s].k = "step" /\ trace[s].a = trace[k].a
              /\ \A j \in (s + 1)..(k - 1) : ~(trace[j].k = "ret" /\ trace[j].a = trace[k].a)
    /\ trace[k].k = "wait" =>
         /\ k < Len(trace)
         /\ trace[k + 1].k = "ret" /\ trace[k + 1].a = trace[k].a
         /\ trace[k + 1].s = "ACONT"
    /\ (trace[k].k = "wait" /\ trace[k].s = "alternate" /\ trace[k].x[3] = "AYIELD") =>
         /\ trace[k - 1].k = "ret" /\ trace[k - 1].s = "AYIELD"
         /\ trace[k - 1].a = trace[k + 1].x[1][IF trace[k].x[2] = "f" THEN 0 ELSE 1]
         /\ Body(trace[k - 1].f)[trace[LastExec(k - 1)].i].op = "ayourturn"

\* workQ yields under andthen in nestQ, the second operand of alternate:
\* nestQ reports Continuing and alternate does not pass the turn
C40_Witness ==
  /\ prog = "realt"
  /\ \E k \in Events :
       /\ trace[k].k = "wait" /\ trace[k].s = "alternate"
       /\ trace[k].x[2] = "g" /\ trace[k].x[3] = "ACONT"
       /\ trace[k - 1].k = "ret" /\ trace[k - 1].f = "nestQ" /\ trace[k - 1].s = "ACONT"
       /\ trace[k - 2].k = "wait" /\ trace[k - 2].s = "andthen" /\ trace[k - 2].x[2] = "AYIELD"
       /\ trace[k - 3].k = "ret" /\ trace[k - 3].f = "workQ" /\ trace[k - 3].s = "AYIELD"

====
